---- MODULE Spec2Model ----
(***************************************************************************)
(* A model of encjson (src/src/encjson.c): the JSON value tree, the lazily *)
(* built lookup tables of arrays and objects, the compact encoder, the     *)
(* UTF-8 decoder and structural equality.                                  *)
(*                                                                         *)
(* Conventions.  A C string or byte buffer is a sequence of bytes 0..255.  *)
(* A pointer into a buffer is a 0-based offset.  A pointer that may be     *)
(* NULL is either the record NULL or the pointed-to value; a lookup table  *)
(* pointer is <<>> (NULL) or <<t>> (a pointer to the table t).             *)
(* 64-bit machine words are four 16-bit limbs, least significant first.   *)
(***************************************************************************)
EXTENDS Integers, Sequences, FiniteSets, TLC

VARIABLES
    which,      \* the part of the library a run exercises
    the_array,  \* a JSON array under json_add_to_array and json_array_get
    the_object, \* a JSON object under the object calls
    nextId,     \* the number of values made so far
    ret,        \* what the last call returned
    op,         \* the last call and its arguments
    gets,       \* the calls of json_array_get and json_object_get so far
    job,        \* the value to encode or the text to decode
    enc,        \* the last encoder call and what it stored and returned
    dec,        \* the decoder: the calls of decode in progress
    trace_data, \* the static trace_data of json_trace
    heap,       \* the blocks of fsrealloc that json_trace writes
    traced      \* the strings json_trace has returned, first to last

vars ==
    <<which, the_array, the_object, nextId, ret, op, gets, job, enc, dec,
      trace_data, heap, traced>>

(***************************************************************************)
(* Program constants (src/src/encjson.c:26-30).                            *)
(***************************************************************************)
MAX_DECODE_NESTING_LEVELS == 200
JIT_SIZE_LIMIT == 30
JIT_ACCESS_LIMIT == 1000
\* (src/src/encjson.c:1709-1712)
TRACE_SLOTS == 4
TRACE_DEFAULT_SIZE == 2048

(***************************************************************************)
(* Bounds of the model.                                                    *)
(***************************************************************************)
\* calls of json_add_to_array or json_add_to_object in one behaviour, after
\* the calls that built the container the behaviour starts with
MaxAdds == 2
\* of these, the calls of json_add_to_object that repeat a key in use
MaxDups == 1
\* calls of json_object_pop that remove a field, in one behaviour
MaxPops == 1
\* calls of json_array_get or json_object_get in one behaviour, after the
\* calls that the behaviour starts with
MaxGets == 3
\* calls of json_trace in one behaviour
MaxTraces == 6

NULL == [type |-> "NULL"]

(***************************************************************************)
(* Small helpers over sequences.                                           *)
(***************************************************************************)
Last(s) == s[Len(s)]

\* the first n elements of s, and s without them
Take(s, n) == SubSeq(s, 1, IF n < Len(s) THEN n ELSE Len(s))
Drop(s, n) == SubSeq(s, n + 1, Len(s))

\* e, with x evaluated first: an operator argument is otherwise evaluated
\* only where the operator uses it, nested inside whatever is being
\* evaluated there
Strict(x, e) == IF x = x THEN e ELSE e

\* F of v, the value of LET x == v IN F(x)
Let(v, F(_)) == F(v)

\* bytes of the decimal representation of a small natural (sprintf "%d")
RECURSIVE DecimalBytes(_)
DecimalBytes(n) ==
    IF n < 10 THEN <<48 + n>> ELSE Append(DecimalBytes(n \div 10), 48 + (n % 10))

\* first index of text holding a byte of set, or Len(text) + 1
IndexOf(text, set) ==
    Let({i \in 1..Len(text) : text[i] \in set}, LAMBDA hits :
    IF hits = {} THEN Len(text) + 1
    ELSE CHOOSE i \in hits : \A j \in hits : i <= j)

\* a C string ends at its first NUL byte
CStr(s) == Take(s, IndexOf(s, {0}) - 1)

\* strcmp(a, b) == 0
strcmp_equal(a, b) == CStr(a) = CStr(b)

(***************************************************************************)
(* Unbounded naturals as sequences of 16-bit limbs, least significant      *)
(* first, and the 64-bit machine words built from them.  They carry the    *)
(* arithmetic of unsigned long long, long long and of the mantissa of a    *)
(* double at its real width.                                               *)
(***************************************************************************)
LimbBase == 2^16

\* b without its leading zero limbs
BigNorm(b) ==
    SubSeq(b, 1, IF \A i \in 1..Len(b) : b[i] = 0 THEN 0
                 ELSE CHOOSE i \in 1..Len(b) :
                          b[i] # 0 /\ \A j \in (i + 1)..Len(b) : b[j] = 0)

LimbAt(b, i) == IF i <= Len(b) THEN b[i] ELSE 0

\* the carry into limb i of x + y: a limb below i overflows and every limb
\* between the two passes the carry on
CarryInto(x, y, i) ==
    \E j \in 1..(i - 1) :
        /\ LimbAt(x, j) + LimbAt(y, j) >= LimbBase
        /\ \A k \in (j + 1)..(i - 1) : LimbAt(x, k) + LimbAt(y, k) = LimbBase - 1

\* x + y in n + 1 limbs, for x and y of n limbs at most
AddLimbs(x, y, n) ==
    [i \in 1..(n + 1) |->
        (LimbAt(x, i) + LimbAt(y, i) + IF CarryInto(x, y, i) THEN 1 ELSE 0)
            % LimbBase]

\* b * m + c for a multiplier m <= 2^15 and c < 2^15: the low halves of the
\* limb products, plus their high halves one limb up and c at the bottom
BigMulAdd(b, m, c) ==
    BigNorm(AddLimbs([i \in 1..Len(b) |-> (b[i] * m) % LimbBase],
                     [i \in 1..(Len(b) + 1) |->
                         IF i = 1 THEN c ELSE (b[i - 1] * m) \div LimbBase],
                     Len(b) + 1))

\* quotient and remainder of b by a divisor d <= 2^15, limbs from the top
RECURSIVE BigDivSmallAux(_, _, _)
BigDivSmallAux(b, d, r) ==
    IF b = <<>> THEN [q |-> <<>>, r |-> r]
    ELSE LET cur == r * LimbBase + b[Len(b)]
             rest == BigDivSmallAux(SubSeq(b, 1, Len(b) - 1), d, cur % d)
         IN [q |-> Append(rest.q, cur \div d), r |-> rest.r]

BigDivSmall(b, d) ==
    Let(BigDivSmallAux(b, d, 0), LAMBDA x :
    [q |-> BigNorm(x.q), r |-> x.r])

\* -1, 0 or 1 as a < b, a = b or a > b; a and b without leading zero limbs
\* a against b from limb i down, for a and b of i limbs at least
BigCmpFromTop(a, b, i) ==
    IF \A j \in 1..i : a[j] = b[j] THEN 0
    ELSE LET top == CHOOSE j \in 1..i :
                        a[j] # b[j] /\ \A k \in (j + 1)..i : a[k] = b[k]
         IN IF a[top] < b[top] THEN -1 ELSE 1

BigCmp(x, y) ==
    Let(BigNorm(x), LAMBDA a :
    Let(BigNorm(y), LAMBDA b :
    IF Len(a) < Len(b) THEN -1
    ELSE IF Len(a) > Len(b) THEN 1
    ELSE BigCmpFromTop(a, b, Len(a))))

BigAdd(a, b) ==
    BigNorm(AddLimbs(a, b, IF Len(a) > Len(b) THEN Len(a) ELSE Len(b)))

\* the borrow out of limb i - 1 in a - b
BorrowInto(a, b, i) ==
    \E j \in 1..(i - 1) :
        /\ a[j] < LimbAt(b, j)
        /\ \A k \in (j + 1)..(i - 1) : a[k] = LimbAt(b, k)

\* a - b for a >= b
BigSub(a, b) ==
    BigNorm([i \in 1..Len(a) |->
                (a[i] - LimbAt(b, i) - (IF BorrowInto(a, b, i) THEN 1 ELSE 0)
                 + LimbBase) % LimbBase])

\* number of significant bits of a limb, and of a natural
LimbBits(x) == IF x = 0 THEN 0 ELSE CHOOSE n \in 1..16 : 2^(n - 1) <= x /\ x < 2^n

BigBitLen(x) ==
    Let(BigNorm(x), LAMBDA b :
    IF b = <<>> THEN 0 ELSE 16 * (Len(b) - 1) + LimbBits(b[Len(b)]))

\* b * 2^n
BigShl(b, n) ==
    [i \in 1..(n \div 16) |-> 0] \o BigMulAdd(BigNorm(b), 2^(n % 16), 0)

\* floor(b / 2^n)
BigShr(b, n) ==
    BigNorm([i \in 1..(Len(b) - n \div 16) |->
                (LimbAt(b, i + n \div 16) \div 2^(n % 16))
                + (LimbAt(b, i + n \div 16 + 1) % 2^(n % 16)) * 2^(16 - (n % 16))])

BigIsOdd(b) == b # <<>> /\ b[1] % 2 = 1

\* b * m^n for a multiplier m <= 2^15
RECURSIVE BigMulPow(_, _, _)
BigMulPow(b, m, n) ==
    IF n = 0 THEN b
    ELSE LET x == BigMulAdd(b, m, 0) IN Strict(x, BigMulPow(x, m, n - 1))

\* the natural held by a small TLA+ number
BigOf(n) == BigNorm(<<n % LimbBase, n \div LimbBase>>)

\* the low 64 bits: conversion to unsigned long long
ToWord(b) == [i \in 1..4 |-> LimbAt(b, i)]

\* 64-bit word holding a small natural
Word(n) == ToWord(BigOf(n))

LLONG_MAX == <<65535, 65535, 65535, 32767>>
\* (unsigned long long) LLONG_MIN, the bit pattern of LLONG_MIN
LLONG_MIN == <<0, 0, 0, 32768>>
ULLONG_MAX == <<65535, 65535, 65535, 65535>>

\* a < b as unsigned long long
WordLess(a, b) == BigCmp(a, b) < 0

\* (long long) w < 0: the sign bit
IsNegative(w) == w[4] >= 32768

\* -w in 64-bit two's complement
WordNeg(w) == ToWord(BigSub(<<0, 0, 0, 0, 1>>, BigNorm(w)))

\* value * 10 + digit as unsigned long long
WordMulAdd10(w, digit) == ToWord(BigMulAdd(w, 10, digit))

\* the decimal digits of a natural below 10^4, zero padded to four when pad
SmallDecimal(n, pad) ==
    Let(<<48 + (n \div 1000), 48 + ((n \div 100) % 10),
          48 + ((n \div 10) % 10), 48 + (n % 10)>>, LAMBDA d :
    IF pad \/ n >= 1000 THEN d
    ELSE IF n >= 100 THEN SubSeq(d, 2, 4)
    ELSE IF n >= 10 THEN SubSeq(d, 3, 4)
    ELSE SubSeq(d, 4, 4))

\* decimal digits of a natural, most significant first, four per division
RECURSIVE BigDecimal(_)
BigDecimal(b) ==
    LET x == BigDivSmall(b, 10000)
    IN IF x.q = <<>> THEN SmallDecimal(x.r, FALSE)
       ELSE BigDecimal(x.q) \o SmallDecimal(x.r, TRUE)

\* value of up to four decimal digit characters
SmallDecimalValue(digits) ==
    LET at(i) == IF i <= Len(digits) THEN digits[Len(digits) + 1 - i] - 48 ELSE 0
    IN at(1) + 10 * at(2) + 100 * at(3) + 1000 * at(4)

\* the natural written by a sequence of decimal digit characters, four of
\* them at a time
RECURSIVE BigFromDecimal(_, _)
BigFromDecimal(acc, digits) ==
    IF digits = <<>> THEN acc
    ELSE IF Len(digits) < 4
    THEN BigMulAdd(acc, 10^Len(digits), SmallDecimalValue(digits))
    ELSE LET x == BigMulAdd(acc, 10000, SmallDecimalValue(SubSeq(digits, 1, 4)))
         IN Strict(x, BigFromDecimal(x, SubSeq(digits, 5, Len(digits))))

\* sprintf(buf, "%llu", w)
FormatUnsigned(w) == BigDecimal(BigNorm(w))

\* sprintf(buf, "%lld", w)
FormatInteger(w) ==
    IF IsNegative(w) THEN <<45>> \o BigDecimal(BigNorm(WordNeg(w)))
    ELSE BigDecimal(BigNorm(w))

(***************************************************************************)
(* IEEE-754 binary64.  A finite double is [neg, mant, exp], the number     *)
(* (-1)^neg * mant * 2^exp, with mant an odd natural below 2^53, or mant   *)
(* zero and exp zero.  Conversions round to nearest, ties to even.         *)
(***************************************************************************)
DoubleZero(neg) == [neg |-> neg, mant |-> <<>>, exp |-> 0]

\* mant without its trailing zero bits, and exp raised by their number
StripZeroBits(mant, exp) ==
    IF mant = <<>> THEN [mant |-> <<>>, exp |-> 0]
    ELSE LET limb == CHOOSE i \in 1..Len(mant) :
                         mant[i] # 0 /\ \A j \in 1..(i - 1) : mant[j] = 0
             bits == CHOOSE n \in 0..15 :
                         mant[limb] % 2^n = 0 /\ mant[limb] % 2^(n + 1) # 0
         IN [mant |-> BigShr(mant, 16 * (limb - 1) + bits),
             exp |-> exp + 16 * (limb - 1) + bits]

MakeDouble(neg, mant, exp) ==
    Let(StripZeroBits(BigNorm(mant), exp), LAMBDA x :
    [neg |-> neg, mant |-> x.mant, exp |-> x.exp])

\* long division of a by b, one hexadecimal digit of the quotient at a
\* time: d holds the remainder r, the digits q found so far and the place i
\* of the next digit
BigDivModStep(d, b) ==
    IF d.i < 0 THEN d
    ELSE Let(BigShl(b, 4 * d.i), LAMBDA t :
            Let(CHOOSE k \in 0..15 : Strict(t,
                    /\ BigCmp(BigMulAdd(t, k, 0), d.r) <= 0
                    /\ BigCmp(BigMulAdd(t, k + 1, 0), d.r) > 0), LAMBDA c :
            [r |-> BigSub(d.r, BigNorm(BigMulAdd(t, c, 0))),
             q |-> BigAdd(d.q, BigShl(BigOf(c), 4 * d.i)),
             i |-> d.i - 1]))

\* 2^k steps of the division
RECURSIVE BigDivModRun(_, _, _)
BigDivModRun(d, b, k) ==
    IF k = 0 THEN BigDivModStep(d, b)
    ELSE LET half == BigDivModRun(d, b, k - 1)
         IN Strict(half, BigDivModRun(half, b, k - 1))

\* quotient and remainder of a by b, for a quotient below 16^16
BigDivMod(a, b) == BigDivModRun([r |-> a, q |-> <<>>, i |-> 15], b, 4)

\* the double nearest to n / m * 2^e, for naturals n and m >= 1;
\* the quotient is cut to 53 bits and rounded on the bits cut off
RoundRatio(neg, n, m, e) ==
    IF BigNorm(n) = <<>> THEN DoubleZero(neg)
    ELSE Let(55 - (BigBitLen(n) - BigBitLen(m)), LAMBDA s :
            Let(IF s >= 0 THEN BigShl(n, s) ELSE BigNorm(n), LAMBDA a :
            Let(IF s >= 0 THEN BigNorm(m) ELSE BigShl(m, -s), LAMBDA b :
            Let(Strict(<<a, b>>, BigDivMod(a, b)), LAMBDA d :
            Let(Strict(d, BigBitLen(d.q) - 53), LAMBDA drop :
            Let(BigShr(d.q, drop), LAMBDA kept :
            Let(Strict(kept, BigSub(d.q, BigShl(kept, drop))), LAMBDA low :
            Let(BigShl(<<1>>, drop - 1), LAMBDA half :
            Let(BigCmp(low, half), LAMBDA c :
            Let(\/ c > 0
                \/ c = 0 /\ (d.r # <<>> \/ BigIsOdd(kept)), LAMBDA up :
            MakeDouble(neg, IF up THEN BigAdd(kept, <<1>>) ELSE kept,
                       drop - s + e)))))))))))

\* (double) of an unsigned long long and of a long long
U64ToDouble(w) == RoundRatio(FALSE, BigNorm(w), <<1>>, 0)

I64ToDouble(w) ==
    RoundRatio(IsNegative(w), BigNorm(IF IsNegative(w) THEN WordNeg(w) ELSE w),
               <<1>>, 0)

DoubleNeg(d) == [d EXCEPT !.neg = ~@]

\* a == b: the two zeros compare equal
DoubleEq(a, b) ==
    IF a.mant = <<>> \/ b.mant = <<>> THEN a.mant = b.mant
    ELSE a = b

\* position of the leading bit: the value is in [2^k, 2^(k+1))
DoubleTopBit(d) == BigBitLen(d.mant) - 1 + d.exp

\* fpclassify of a value before the exponent range is applied
fpclassify(d) ==
    IF d.mant = <<>> THEN "FP_ZERO"
    ELSE IF DoubleTopBit(d) > 1023 THEN "FP_INFINITE"
    ELSE IF DoubleTopBit(d) < -1022 THEN "FP_SUBNORMAL"
    ELSE "FP_NORMAL"

isnormal(d) == fpclassify(d) = "FP_NORMAL"

(***************************************************************************)
(* The float formatter (src/src/default_float_formatter.c) in the C        *)
(* locale: strtod and sprintf("%.21g").                                    *)
(***************************************************************************)
\* value of a short run of decimal digit characters
RECURSIVE SmallFromDecimal(_, _)
SmallFromDecimal(acc, digits) ==
    IF digits = <<>> THEN acc
    ELSE SmallFromDecimal(acc * 10 + (Head(digits) - 48), Tail(digits))

\* b * 10^n and b * 5^n, several factors per multiplication and several
\* multiplications per level of the recursion
RECURSIVE BigMulPow10Run(_, _)
BigMulPow10Run(b, n) ==
    IF n < 4 THEN BigMulAdd(b, 10^n, 0)
    ELSE LET x == BigMulAdd(b, 10000, 0) IN Strict(x, BigMulPow10Run(x, n - 4))

RECURSIVE BigMulPow10(_, _)
BigMulPow10(b, n) ==
    IF n < 32 THEN BigMulPow10Run(b, n)
    ELSE LET x == BigMulPow10Run(b, 32) IN Strict(x, BigMulPow10(x, n - 32))

RECURSIVE BigMulPow5Run(_, _)
BigMulPow5Run(b, n) ==
    IF n < 6 THEN BigMulAdd(b, 5^n, 0)
    ELSE LET x == BigMulAdd(b, 15625, 0) IN Strict(x, BigMulPow5Run(x, n - 6))

RECURSIVE BigMulPow5(_, _)
BigMulPow5(b, n) ==
    IF n < 48 THEN BigMulPow5Run(b, n)
    ELSE LET x == BigMulPow5Run(b, 48) IN Strict(x, BigMulPow5(x, n - 48))

\* the double nearest to digits [. digits] [(e|E) [+|-] digits], whatever
\* its exponent.  A value of 10^311 or more stands as 2^1100 and a nonzero
\* value below 10^-330 as 2^-1100: both are far outside the range of a
\* double, where only the side they are on matters
DecimalToDouble(text) ==
    Let(IndexOf(text, {69, 101}), LAMBDA epos :
    Let(IndexOf(SubSeq(text, 1, epos - 1), {46}), LAMBDA dpos :
    Let(SubSeq(text, 1, dpos - 1), LAMBDA intpart :
    Let(SubSeq(text, dpos + 1, epos - 1), LAMBDA fracpart :
    Let(SubSeq(text, epos + 1, Len(text)), LAMBDA exppart :
    Let(exppart # <<>> /\ exppart[1] = 45, LAMBDA expneg :
    Let(IF exppart # <<>> /\ exppart[1] \in {43, 45}
        THEN Tail(exppart) ELSE exppart, LAMBDA expdigits :
    Let(IF Len(expdigits) > 5 THEN 99999
        ELSE SmallFromDecimal(0, expdigits), LAMBDA e10 :
    Let((IF expneg THEN -e10 ELSE e10) - Len(fracpart), LAMBDA k :
    Let(BigNorm(BigFromDecimal(<<>>, intpart \o fracpart)), LAMBDA d :
    IF d = <<>> THEN DoubleZero(FALSE)
    ELSE IF k > 310 THEN MakeDouble(FALSE, <<1>>, 1100)
    ELSE IF k + Len(intpart) + Len(fracpart) < -330
         THEN MakeDouble(FALSE, <<1>>, -1100)
    ELSE RoundRatio(FALSE,
                    IF k >= 0 THEN BigNorm(BigMulPow10(d, k)) ELSE d,
                    IF k >= 0 THEN <<1>> ELSE BigNorm(BigMulPow10(<<1>>, -k)),
                    0)))))))))))

\* encjson_internal_decode_float: strtod and its errno test.  A result too
\* large is HUGE_VAL with ERANGE; a result below the normal range is zero
\* or subnormal, and ERANGE is then set unless the result is zero
encjson_internal_decode_float(buffer) ==
    Let(DecimalToDouble(buffer), LAMBDA d :
    IF fpclassify(d) = "FP_INFINITE" THEN [ok |-> FALSE, value |-> d]
    ELSE IF fpclassify(d) = "FP_SUBNORMAL"
         THEN IF DoubleTopBit(d) < -1075
              THEN [ok |-> TRUE, value |-> DoubleZero(FALSE)]
              ELSE [ok |-> FALSE, value |-> d]
    ELSE [ok |-> TRUE, value |-> d])

\* digits without their trailing '0' characters, one digit at least
StripTrailingZeros(digits) ==
    Let({i \in 1..Len(digits) : digits[i] # 48}, LAMBDA nz :
    IF nz = {} THEN <<48>>
    ELSE SubSeq(digits, 1, CHOOSE i \in nz : \A j \in nz : j <= i))

Zeros(n) == [i \in 1..n |-> 48]

\* sprintf(buffer, "%.21g", value): the exact decimal expansion of the
\* value, rounded to 21 significant digits, in fixed or exponent style
encjson_internal_encode_float(value) ==
    IF value.mant = <<>> THEN (IF value.neg THEN <<45, 48>> ELSE <<48>>)
    ELSE
       Let(IF value.exp >= 0
           THEN BigDecimal(BigNorm(BigShl(value.mant, value.exp)))
           ELSE BigDecimal(BigNorm(BigMulPow5(value.mant, -value.exp))), LAMBDA exact :
       Let(IF value.exp >= 0 THEN 0 ELSE -value.exp, LAMBDA fd :
       Let(Len(exact), LAMBDA n :
       Let(Take(exact, 21), LAMBDA first :
       Let(Drop(exact, 21), LAMBDA rest :
       Let(/\ n > 21
           /\ \/ rest[1] > 53
              \/ /\ rest[1] = 53
                 /\ \/ \E i \in 2..Len(rest) : rest[i] # 48
                    \/ first[21] % 2 = 1, LAMBDA up :
       Let(BigDecimal(BigNorm(BigAdd(BigNorm(BigFromDecimal(<<>>, first)), <<1>>))), LAMBDA bumped :
       Let(IF ~up THEN first ELSE Take(bumped, 21), LAMBDA sig :
       Let(n - 1 - fd + (IF up /\ Len(bumped) > 21 THEN 1 ELSE 0), LAMBDA x :
       Let(StripTrailingZeros(sig), LAMBDA digits :
       Let(IF x < 0 THEN -x ELSE x, LAMBDA ax :
       Let(
           IF x < -4 \/ x >= 21
           THEN <<digits[1]>>
                \o (IF Len(digits) > 1 THEN <<46>> \o Tail(digits) ELSE <<>>)
                \o <<101, IF x < 0 THEN 45 ELSE 43>>
                \o (IF ax < 10 THEN <<48>> ELSE <<>>) \o DecimalBytes(ax)
           ELSE IF x >= 0
           THEN SubSeq(digits \o Zeros(x + 1), 1, x + 1)
                \o (IF Len(digits) > x + 1
                    THEN <<46>> \o SubSeq(digits, x + 2, Len(digits))
                    ELSE <<>>)
           ELSE <<48, 46>> \o Zeros(-x - 1) \o digits, LAMBDA body :
       (IF value.neg THEN <<45>> ELSE <<>>) \o body))))))))))))

(***************************************************************************)
(* Constructors.                                                           *)
(***************************************************************************)
json_make_integer(n) == [type |-> "JSON_INTEGER", integer |-> n]

json_make_unsigned(n) == [type |-> "JSON_UNSIGNED", u_integer |-> n]

json_make_float(n) == [type |-> "JSON_FLOAT", real |-> n]

\* the bytes from s[i] on are well-formed UTF-8 (RFC 3629)
RECURSIVE WellFormedFrom(_, _)
WellFormedFrom(s, i) ==
    LET at(k) == IF k <= Len(s) THEN s[k] ELSE 0
        cont(k) == at(k) >= 128 /\ at(k) <= 191
    IN IF i > Len(s) THEN TRUE
       ELSE IF at(i) < 128 THEN WellFormedFrom(s, i + 1)
       ELSE IF at(i) >= 194 /\ at(i) <= 223
       THEN cont(i + 1) /\ WellFormedFrom(s, i + 2)
       ELSE IF at(i) >= 224 /\ at(i) <= 239
       THEN /\ cont(i + 1) /\ cont(i + 2)
            /\ at(i) = 224 => at(i + 1) >= 160
            /\ at(i) = 237 => at(i + 1) <= 159
            /\ WellFormedFrom(s, i + 3)
       ELSE IF at(i) >= 240 /\ at(i) <= 244
       THEN /\ cont(i + 1) /\ cont(i + 2) /\ cont(i + 3)
            /\ at(i) = 240 => at(i + 1) >= 144
            /\ at(i) = 244 => at(i + 1) <= 143
            /\ WellFormedFrom(s, i + 4)
       ELSE FALSE

\* charstr_valid_utf8_bounded(s, s + size) of fsdyn
charstr_valid_utf8_bounded(s, size) == WellFormedFrom(Take(s, size), 1)

\* json_adopt_bounded_string: s is valid UTF-8 (asserted by the code; the
\* decoder, which adopts what it has not validated so, makes the test where
\* it calls this)
json_adopt_bounded_string(s, size) ==
    [type |-> "JSON_STRING", utf8 |-> s, len |-> size]

\* json_make_string(s) for a NUL-terminated s
json_make_string(s) == json_adopt_bounded_string(CStr(s), Len(CStr(s)))

json_make_boolean(truth_value) == [type |-> "JSON_BOOLEAN", boolean |-> truth_value]

json_make_null == [type |-> "JSON_NULL"]

json_make_raw(encoding) == [type |-> "JSON_RAW", repr |-> encoding]

json_make_array ==
    [type |-> "JSON_ARRAY", elements |-> <<>>,
     random_access_counter |-> 0, lookup_table |-> <<>>]

\* clobber_array leaving the lookup table in place
clobber_array_keeps(a) == a

clobber_array(a) ==
    IF a.lookup_table = <<>> THEN a
    ELSE [a EXCEPT !.random_access_counter = 0, !.lookup_table = <<>>]

json_add_to_array(a, element) ==
    Let(clobber_array(a), LAMBDA c :
    [c EXCEPT !.elements = Append(c.elements, element)])

json_make_object ==
    [type |-> "JSON_OBJECT", fields |-> <<>>,
     random_access_counter |-> 0, lookup_table |-> <<>>]

\* clobber_object leaving the hash table in place
clobber_object_keeps(o) == o

clobber_object(o) ==
    IF o.lookup_table = <<>> THEN o
    ELSE [o EXCEPT !.random_access_counter = 0, !.lookup_table = <<>>]

\* add_to_object; a field is the pair_t [name, value]
add_to_object(o, key, value) ==
    Let(clobber_object(o), LAMBDA c :
    [c EXCEPT !.fields = Append(c.fields, [name |-> key, value |-> value])])

json_add_to_object(o, field, value) == add_to_object(o, field, value)

(***************************************************************************)
(* Arrays: json_array_get and its lookup table.                            *)
(***************************************************************************)
list_size(l) == Len(l)

\* optimize_array storing through lookup_table[++i]: every slot but the
\* last holds the element after its own
optimize_array_shifted(a) ==
    [a EXCEPT !.lookup_table =
                  <<[i \in 1..list_size(a.elements) |->
                         a.elements[IF i = list_size(a.elements) THEN i
                                    ELSE i + 1]]>>]

\* the C array filled by optimize_array: slot i holds the i-th list element
optimize_array(a) ==
    [a EXCEPT !.lookup_table =
                  <<[i \in 1..list_size(a.elements) |-> a.elements[i]]>>]

\* lookup_table[n]; a read past the allocation yields an unspecified value
TableAt(t, n) == IF n < Len(t) THEN t[n + 1] ELSE [type |-> "GARBAGE"]

\* the list walk "for (e = first, i = 0; i < n; e = next(e), i++)"
RECURSIVE WalkElements(_, _, _)
WalkElements(l, i, n) ==
    IF l = <<>> THEN NULL
    ELSE IF i < n THEN WalkElements(Tail(l), i + 1, n)
    ELSE Head(l)

\* json_array_get that never calls optimize_array
json_array_get_walking(a, n) ==
    IF n >= list_size(a.elements) THEN [array |-> a, ret |-> NULL]
    ELSE [array |-> a, ret |-> WalkElements(a.elements, 0, n)]

\* json_array_get that counts the calls, not the elements walked
json_array_get_by_calls(a, n) ==
    IF n >= list_size(a.elements) THEN [array |-> a, ret |-> NULL]
    ELSE IF a.lookup_table # <<>>
         THEN [array |-> a, ret |-> TableAt(a.lookup_table[1], n)]
    ELSE IF list_size(a.elements) < JIT_SIZE_LIMIT
         THEN [array |-> a, ret |-> WalkElements(a.elements, 0, n)]
    ELSE IF a.random_access_counter + 1 >= JIT_ACCESS_LIMIT
         THEN Let(optimize_array([a EXCEPT !.random_access_counter = @ + 1]), LAMBDA opt :
                 [array |-> opt, ret |-> TableAt(opt.lookup_table[1], n)])
    ELSE [array |-> [a EXCEPT !.random_access_counter = @ + 1],
          ret |-> WalkElements(a.elements, 0, n)]

\* returns the array as the call leaves it and the returned pointer
json_array_get(a, n) ==
    IF n >= list_size(a.elements) THEN [array |-> a, ret |-> NULL]
    ELSE IF a.lookup_table # <<>>
         THEN [array |-> a, ret |-> TableAt(a.lookup_table[1], n)]
    ELSE Let(
                 IF list_size(a.elements) >= JIT_SIZE_LIMIT
                 THEN [a EXCEPT !.random_access_counter = @ + n]
                 ELSE a, LAMBDA counted :
            IF /\ list_size(a.elements) >= JIT_SIZE_LIMIT
               /\ counted.random_access_counter >= JIT_ACCESS_LIMIT
            THEN Let(optimize_array(counted), LAMBDA opt :
                    [array |-> opt, ret |-> TableAt(opt.lookup_table[1], n)])
            ELSE [array |-> counted, ret |-> WalkElements(counted.elements, 0, n)])

json_array_size(a) == list_size(a.elements)

(***************************************************************************)
(* Objects: json_object_get, json_object_pop and the hash table.           *)
(* The hash table (fsdyn hash_table_t, keyed by strcmp) is a function from *)
(* the keys it holds to the value stored under each.                       *)
(***************************************************************************)
make_hash_table == [k \in {} |-> NULL]

\* hash_table_put that leaves the element of an equal key in place
hash_table_put_first(t, key, value) ==
    [k \in DOMAIN t \cup {CStr(key)} |->
        IF k \in DOMAIN t THEN t[k] ELSE value]

\* hash_table_put: a later put replaces the element of an equal key
hash_table_put(t, key, value) ==
    [k \in DOMAIN t \cup {CStr(key)} |-> IF k = CStr(key) THEN value ELSE t[k]]

hash_table_get(t, key) == IF CStr(key) \in DOMAIN t THEN t[CStr(key)] ELSE NULL

RECURSIVE PutFields(_, _)
PutFields(t, fields) ==
    IF fields = <<>> THEN t
    ELSE PutFields(hash_table_put(t, Head(fields).name, Head(fields).value),
                   Tail(fields))

\* optimize_object that leaves the last field out of the table
optimize_object_short(o) ==
    [o EXCEPT !.lookup_table =
                  <<PutFields(make_hash_table,
                              SubSeq(o.fields, 1, Len(o.fields) - 1))>>]

optimize_object(o) ==
    [o EXCEPT !.lookup_table = <<PutFields(make_hash_table, o.fields)>>]

\* the plain walk of json_object_get (fewer than JIT_SIZE_LIMIT fields)
RECURSIVE WalkFields(_, _)
WalkFields(fields, key) ==
    IF fields = <<>> THEN NULL
    ELSE IF strcmp_equal(key, Head(fields).name) THEN Head(fields).value
    ELSE WalkFields(Tail(fields), key)

\* the counting walk of json_object_get, from field i on
RECURSIVE CountingWalk(_, _, _)
CountingWalk(o, i, key) ==
    IF i > Len(o.fields) THEN [object |-> o, ret |-> NULL]
    ELSE LET counted == [o EXCEPT !.random_access_counter = @ + 1]
         IN IF counted.random_access_counter >= JIT_ACCESS_LIMIT
            THEN LET opt == optimize_object(counted)
                 IN [object |-> opt,
                     ret |-> hash_table_get(opt.lookup_table[1], key)]
            ELSE IF strcmp_equal(key, o.fields[i].name)
                 THEN [object |-> counted, ret |-> o.fields[i].value]
                 ELSE CountingWalk(counted, i + 1, key)

\* json_object_get that counts the calls, not the fields visited
json_object_get_by_calls(o, key) ==
    IF o.lookup_table # <<>>
    THEN [object |-> o, ret |-> hash_table_get(o.lookup_table[1], key)]
    ELSE IF list_size(o.fields) < JIT_SIZE_LIMIT
         THEN [object |-> o, ret |-> WalkFields(o.fields, key)]
    ELSE IF o.random_access_counter + 1 >= JIT_ACCESS_LIMIT
         THEN Let(optimize_object([o EXCEPT !.random_access_counter = @ + 1]), LAMBDA opt :
                 [object |-> opt, ret |-> hash_table_get(opt.lookup_table[1], key)])
    ELSE [object |-> [o EXCEPT !.random_access_counter = @ + 1],
          ret |-> WalkFields(o.fields, key)]

\* returns the object as the call leaves it and the returned pointer
json_object_get(o, key) ==
    IF o.lookup_table # <<>>
    THEN [object |-> o, ret |-> hash_table_get(o.lookup_table[1], key)]
    ELSE IF list_size(o.fields) >= JIT_SIZE_LIMIT
         THEN CountingWalk(o, 1, key)
         ELSE [object |-> o, ret |-> WalkFields(o.fields, key)]

\* the fields with the first one named key removed
RECURSIVE RemoveFirst(_, _)
RemoveFirst(fields, key) ==
    IF fields = <<>> THEN <<>>
    ELSE IF strcmp_equal(key, Head(fields).name) THEN Tail(fields)
    ELSE <<Head(fields)>> \o RemoveFirst(Tail(fields), key)

json_object_pop(o, key) ==
    Let(clobber_object(o), LAMBDA c :
    [object |-> [c EXCEPT !.fields = RemoveFirst(c.fields, key)],
     ret |-> WalkFields(c.fields, key)])

(***************************************************************************)
(* The encoders.  q is the sequence of bytes written so far, so that the   *)
(* write cursor is at offset Len(q) of the buffer; end is the offset the   *)
(* cursor may not reach.  Every encode function returns its count and the  *)
(* bytes written.                                                          *)
(***************************************************************************)
Bit(a, i) == (a \div 2^i) % 2

\* a & b for bytes
BitAnd(a, b) ==
    Bit(a, 0) * Bit(b, 0) + 2 * Bit(a, 1) * Bit(b, 1)
    + 4 * Bit(a, 2) * Bit(b, 2) + 8 * Bit(a, 3) * Bit(b, 3)
    + 16 * Bit(a, 4) * Bit(b, 4) + 32 * Bit(a, 5) * Bit(b, 5)
    + 64 * Bit(a, 6) * Bit(b, 6) + 128 * Bit(a, 7) * Bit(b, 7)

\* s[i] of a NUL-terminated string s, i counted from 0
CharAt(s, i) == IF i < Len(s) THEN s[i + 1] ELSE 0

is_ascii_control_character(c) == BitAnd(c, 224) = 0 \/ c = 127

\* is_at_latin_control_character(s + i)
is_at_latin_control_character(s, i) ==
    CharAt(s, i) = 194 /\ BitAnd(CharAt(s, i + 1), 224) = 128

\* encode_char testing *q <= end
encode_char_to_end(c, q, end) == IF Len(q) <= end THEN Append(q, c) ELSE q

encode_char(c, q, end) == IF Len(q) < end THEN Append(q, c) ELSE q

RECURSIVE encode_repr_loop(_, _, _, _, _)
encode_repr_loop(repr, i, q, end, count) ==
    IF CharAt(repr, i) = 0 THEN [count |-> count, q |-> q]
    ELSE Let(encode_char(CharAt(repr, i), q, end), LAMBDA q2 :
            Strict(q2, encode_repr_loop(repr, i + 1, q2, end, count + 1)))

encode_repr(repr, q, end) == encode_repr_loop(repr, 0, q, end, 0)

HexDigit(d) == IF d < 10 THEN 48 + d ELSE 87 + d

\* sprintf(buf, "\\u%04x", v)
FormatU4(v) ==
    <<92, 117, HexDigit((v \div 4096) % 16), HexDigit((v \div 256) % 16),
      HexDigit((v \div 16) % 16), HexDigit(v % 16)>>

\* the loop of encode_string_value, p at value + i
RECURSIVE encode_string_loop(_, _, _, _, _)
encode_string_loop(value, i, q, end, count) ==
    Let(CharAt(value, i), LAMBDA c :
    Let(
        IF is_ascii_control_character(c)
        THEN Let(encode_repr(
                          CASE c = 8 -> <<92, 98>>
                            [] c = 12 -> <<92, 102>>
                            [] c = 10 -> <<92, 110>>
                            [] c = 13 -> <<92, 114>>
                            [] c = 9 -> <<92, 116>>
                            [] OTHER -> FormatU4(BitAnd(c, 255)),
                          q, end), LAMBDA r :
                [i |-> i + 1, q |-> r.q, count |-> count + r.count])
        ELSE IF is_at_latin_control_character(value, i)
        THEN Let(encode_repr(
                          FormatU4(BitAnd(c, 31) * 64
                                   + BitAnd(CharAt(value, i + 1), 63)),
                          q, end), LAMBDA r :
                [i |-> i + 2, q |-> r.q, count |-> count + r.count])
        ELSE IF c = 92 \/ c = 34
        THEN [i |-> i + 1, q |-> encode_char(c, encode_char(92, q, end), end),
              count |-> count + 2]
        ELSE [i |-> i + 1, q |-> encode_char(c, q, end), count |-> count + 1], LAMBDA step :
    IF c = 0 THEN [count |-> count, q |-> q]
    ELSE Strict(step, encode_string_loop(value, step.i, step.q, end, step.count))))

encode_string_value(value, q, end) ==
    Let(encode_string_loop(value, 0, encode_char(34, q, end), end, 1), LAMBDA r :
    [count |-> r.count + 1, q |-> encode_char(34, r.q, end)])

encode_string(thing, q, end) == encode_string_value(thing.utf8, q, end)

\* encode_integer printing with "%llu"
encode_integer_unsigned(thing, q, end) ==
    encode_repr(FormatUnsigned(thing.integer), q, end)

encode_integer(thing, q, end) == encode_repr(FormatInteger(thing.integer), q, end)

encode_unsigned(thing, q, end) == encode_repr(FormatUnsigned(thing.u_integer), q, end)

encode_float(thing, q, end) ==
    encode_repr(encjson_internal_encode_float(thing.real), q, end)

RECURSIVE encode_raw(_, _, _)
RECURSIVE encode_array_loop(_, _, _, _, _)
RECURSIVE encode_object_loop(_, _, _, _, _)

\* the for (;;) of encode_array, e at element i
encode_array_loop(elements, i, q, end, count) ==
    Let(encode_raw(elements[i], q, end), LAMBDA r :
    IF i = Len(elements) THEN [count |-> count + r.count, q |-> r.q]
    ELSE Let(encode_char(44, r.q, end), LAMBDA q2 :
            Strict(q2, encode_array_loop(elements, i + 1, q2, end,
                                         count + r.count + 1))))

encode_array(thing, q, end) ==
    Let(encode_char(91, q, end), LAMBDA q1 :
    Let(IF thing.elements = <<>> THEN [count |-> 1, q |-> q1]
        ELSE encode_array_loop(thing.elements, 1, q1, end, 1), LAMBDA r :
    [count |-> r.count + 1, q |-> encode_char(93, r.q, end)]))

\* the for (;;) of encode_object, f at field i
encode_object_loop(fields, i, q, end, count) ==
    Let(encode_string_value(fields[i].name, q, end), LAMBDA k :
    Let(encode_raw(fields[i].value, encode_char(58, k.q, end), end), LAMBDA r :
    Let(count + k.count + 1 + r.count, LAMBDA n :
    IF i = Len(fields) THEN [count |-> n, q |-> r.q]
    ELSE Let(encode_char(44, r.q, end), LAMBDA q2 :
            Strict(q2, encode_object_loop(fields, i + 1, q2, end, n + 1))))))

encode_object(thing, q, end) ==
    Let(encode_char(123, q, end), LAMBDA q1 :
    Let(IF thing.fields = <<>> THEN [count |-> 1, q |-> q1]
        ELSE encode_object_loop(thing.fields, 1, q1, end, 1), LAMBDA r :
    [count |-> r.count + 1, q |-> encode_char(125, r.q, end)]))

encode_raw(thing, q, end) ==
    CASE thing.type = "JSON_ARRAY" -> encode_array(thing, q, end)
      [] thing.type = "JSON_OBJECT" -> encode_object(thing, q, end)
      [] thing.type = "JSON_STRING" -> encode_string(thing, q, end)
      [] thing.type = "JSON_INTEGER" -> encode_integer(thing, q, end)
      [] thing.type = "JSON_UNSIGNED" -> encode_unsigned(thing, q, end)
      [] thing.type = "JSON_FLOAT" -> encode_float(thing, q, end)
      [] thing.type = "JSON_BOOLEAN" ->
            encode_repr(IF thing.boolean THEN <<116, 114, 117, 101>>
                        ELSE <<102, 97, 108, 115, 101>>, q, end)
      [] thing.type = "JSON_NULL" -> encode_repr(<<110, 117, 108, 108>>, q, end)
      [] thing.type = "JSON_RAW" -> encode_repr(thing.repr, q, end)

\* json_utf8_encode returning q - buffer, the number of bytes stored
json_utf8_encode_stored(thing, size) ==
    IF size = 0
    THEN Let(encode_raw(thing, <<>>, 0), LAMBDA r :
            [count |-> Len(r.q), written |-> r.q])
    ELSE Let(encode_raw(thing, <<>>, size - 1), LAMBDA r :
            [count |-> Len(r.q), written |-> Append(r.q, 0)])

\* json_utf8_encode(thing, buffer, size): the value returned and the bytes
\* stored from offset 0 of buffer on, the terminating NUL included
json_utf8_encode(thing, size) ==
    IF size = 0
    THEN Let(encode_raw(thing, <<>>, 0), LAMBDA r :
            [count |-> r.count, written |-> r.q])
    ELSE Let(encode_raw(thing, <<>>, size - 1), LAMBDA r :
            [count |-> r.count, written |-> Append(r.q, 0)])

\* indent with tabs for spaces
RECURSIVE indent_tabs(_, _, _)
indent_tabs(q, end, left_margin) ==
    IF left_margin = 0 THEN q
    ELSE indent_tabs(encode_char(9, q, end), end, left_margin - 1)

RECURSIVE indent(_, _, _)
indent(q, end, left_margin) ==
    IF left_margin = 0 THEN q
    ELSE indent(encode_char(32, q, end), end, left_margin - 1)

RECURSIVE prettyprint_raw(_, _, _, _, _)
RECURSIVE prettyprint_array_loop(_, _, _, _, _, _, _)
RECURSIVE prettyprint_object_loop(_, _, _, _, _, _, _)

\* the for (;;) of prettyprint_array, e at element i
prettyprint_array_loop(elements, i, q, end, count, deeper, indentation) ==
    Let(indent(encode_char(10, q, end), end, deeper), LAMBDA q1 :
    Let(prettyprint_raw(elements[i], q1, end, deeper, indentation), LAMBDA r :
    Let(count + deeper + 1 + r.count, LAMBDA n :
    IF i = Len(elements) THEN [count |-> n, q |-> r.q]
    ELSE Let(encode_char(44, r.q, end), LAMBDA q2 :
            Strict(q2, prettyprint_array_loop(elements, i + 1, q2, end, n + 1,
                                              deeper, indentation))))))

prettyprint_array(thing, q, end, left_margin, indentation) ==
    Let(encode_char(91, q, end), LAMBDA q1 :
    Let(IF thing.elements = <<>> THEN [count |-> 1, q |-> q1]
        ELSE Let(prettyprint_array_loop(thing.elements, 1, q1, end, 1,
                                             left_margin + indentation,
                                             indentation), LAMBDA l :
                [count |-> l.count + left_margin + 1,
                 q |-> indent(encode_char(10, l.q, end), end, left_margin)]), LAMBDA r :
    [count |-> r.count + 1, q |-> encode_char(93, r.q, end)]))

\* the for (;;) of prettyprint_object, f at field i
prettyprint_object_loop(fields, i, q, end, count, deeper, indentation) ==
    Let(indent(encode_char(10, q, end), end, deeper), LAMBDA q1 :
    Let(encode_string_value(fields[i].name, q1, end), LAMBDA k :
    Let(encode_char(32, encode_char(58, k.q, end), end), LAMBDA q2 :
    Let(prettyprint_raw(fields[i].value, q2, end, deeper, indentation), LAMBDA r :
    Let(count + deeper + 1 + k.count + 2 + r.count, LAMBDA n :
    IF i = Len(fields) THEN [count |-> n, q |-> r.q]
    ELSE Let(encode_char(44, r.q, end), LAMBDA q3 :
            Strict(q3, prettyprint_object_loop(fields, i + 1, q3, end, n + 1,
                                               deeper, indentation))))))))

prettyprint_object(thing, q, end, left_margin, indentation) ==
    Let(encode_char(123, q, end), LAMBDA q1 :
    Let(IF thing.fields = <<>> THEN [count |-> 1, q |-> q1]
        ELSE Let(prettyprint_object_loop(thing.fields, 1, q1, end, 1,
                                              left_margin + indentation,
                                              indentation), LAMBDA l :
                [count |-> l.count + left_margin + 1,
                 q |-> indent(encode_char(10, l.q, end), end, left_margin)]), LAMBDA r :
    [count |-> r.count + 1, q |-> encode_char(125, r.q, end)]))

prettyprint_raw(thing, q, end, left_margin, indentation) ==
    CASE thing.type = "JSON_ARRAY" ->
             prettyprint_array(thing, q, end, left_margin, indentation)
      [] thing.type = "JSON_OBJECT" ->
             prettyprint_object(thing, q, end, left_margin, indentation)
      [] OTHER -> encode_raw(thing, q, end)

\* json_utf8_prettyprint(thing, buffer, size, left_margin, indentation)
json_utf8_prettyprint(thing, size, left_margin, indentation) ==
    IF size = 0
    THEN Let(prettyprint_raw(thing, <<>>, 0, left_margin, indentation), LAMBDA r :
            [count |-> r.count, written |-> r.q])
    ELSE Let(prettyprint_raw(thing, <<>>, size - 1, left_margin, indentation), LAMBDA r :
            [count |-> r.count, written |-> Append(r.q, 0)])

(***************************************************************************)
(* The decoder's scanners.  A pointer into the input is its offset from    *)
(* the start of text; end is the offset one past the last byte.            *)
(***************************************************************************)
NullPtr == -1

\* *p
Byte(text, p) == text[p + 1]

exhausted(p, end) == ~(p < end)

RECURSIVE skip_ws(_, _, _)
skip_ws(text, p, end) ==
    IF p = NullPtr THEN p
    ELSE IF p < end /\ Byte(text, p) \in {32, 9, 13, 10}
         THEN skip_ws(text, p + 1, end)
    ELSE p

\* skip without its test of end; the byte past the buffer is no byte
skip_unbounded(text, p, end, c) ==
    IF p = NullPtr THEN NullPtr
    ELSE IF (IF p < Len(text) THEN text[p + 1] ELSE -1) # c THEN NullPtr
    ELSE p + 1

skip(text, p, end, c) ==
    IF p = NullPtr \/ exhausted(p, end) THEN NullPtr
    ELSE IF Byte(text, p) # c THEN NullPtr
    ELSE p + 1

\* charstr_digit_value for the digits of base 16
charstr_digit_value(c) ==
    IF c >= 48 /\ c <= 57 THEN c - 48
    ELSE IF c >= 65 /\ c <= 70 THEN c - 55
    ELSE IF c >= 97 /\ c <= 102 THEN c - 87
    ELSE -1

scan_hex_digit(text, p, end) ==
    IF p = NullPtr \/ exhausted(p, end) THEN [p |-> NullPtr, digit |-> -1]
    ELSE Let(charstr_digit_value(Byte(text, p)), LAMBDA digit :
            IF digit = -1 THEN [p |-> NullPtr, digit |-> digit]
            ELSE [p |-> skip(text, p, end, Byte(text, p)), digit |-> digit])

\* value is meaningful only when the returned p is not NULL
scan_ucs2(text, p, end) ==
    Let(scan_hex_digit(text, p, end), LAMBDA h0 :
    Let(scan_hex_digit(text, h0.p, end), LAMBDA h1 :
    Let(scan_hex_digit(text, h1.p, end), LAMBDA h2 :
    Let(scan_hex_digit(text, h2.p, end), LAMBDA h3 :
    [p |-> h3.p,
     value |-> IF h3.p = NullPtr THEN 0
               ELSE h0.digit * 4096 + h1.digit * 256 + h2.digit * 16 + h3.digit]))))

\* high_surrogate taking no number for one
high_surrogate_never(ucs2) == FALSE

high_surrogate(ucs2) == ucs2 >= 55296 /\ ucs2 <= 56319

low_surrogate(ucs2) == ucs2 >= 56320 /\ ucs2 <= 57343

valid_unicode(unic) ==
    (unic >= 0 /\ unic <= 55295) \/ (unic >= 57344 /\ unic <= 1114111)

utf8_length(unic) ==
    IF unic < 128 THEN 1
    ELSE IF unic < 2048 THEN 2
    ELSE IF unic < 65536 THEN 3
    ELSE 4

\* the bytes utf8_encode stores at q
utf8_encode(unic) ==
    IF unic < 128 THEN <<unic>>
    ELSE IF unic < 2048 THEN <<192 + (unic \div 64), 128 + (unic % 64)>>
    ELSE IF unic < 65536
         THEN <<224 + (unic \div 4096), 128 + ((unic \div 64) % 64),
                128 + (unic % 64)>>
    ELSE <<240 + (unic \div 262144), 128 + ((unic \div 4096) % 64),
           128 + ((unic \div 64) % 64), 128 + (unic % 64)>>

\* scanning begins after the initial \u
scan_utf16(text, p, end) ==
    Let(scan_ucs2(text, p, end), LAMBDA u :
    Let([p |-> NullPtr, value |-> 0], LAMBDA fail :
    IF u.p = NullPtr THEN fail
    ELSE IF low_surrogate(u.value) THEN fail
    ELSE IF ~high_surrogate(u.value) THEN u
    ELSE Let(scan_ucs2(text, skip(text, skip(text, u.p, end, 92), end, 117),
                            end), LAMBDA l :
            Let(65536 + (u.value - 55296) * 1024 + (l.value - 56320), LAMBDA value :
            IF l.p = NullPtr THEN fail
            ELSE IF ~low_surrogate(l.value) THEN fail
            ELSE IF ~valid_unicode(value) THEN fail
            ELSE [p |-> l.p, value |-> value]))))

skip_utf8(text, p, end) ==
    IF p = NullPtr \/ exhausted(p, end) THEN NullPtr
    ELSE Let(Byte(text, p), LAMBDA c0 :
             Let(skip(text, p, end, c0), LAMBDA p1 :
             \* one continuation byte at x
         LET cont(x) == ~exhausted(x, end) /\ BitAnd(Byte(text, x), 192) = 128
         IN IF BitAnd(c0, 128) = 0 THEN p1
            ELSE IF BitAnd(c0, 64) = 0 THEN NullPtr
            ELSE IF ~cont(p1) THEN NullPtr
            ELSE IF BitAnd(c0, 32) = 0 THEN p1 + 1
            ELSE IF ~cont(p1 + 1) THEN NullPtr
            ELSE IF BitAnd(c0, 16) = 0 THEN p1 + 2
            ELSE IF BitAnd(c0, 8) # 0 THEN NullPtr
            ELSE IF ~cont(p1 + 2) THEN NullPtr
            ELSE p1 + 3))

\* the while loop of scan_string_repr: the count, or -1
RECURSIVE scan_string_loop(_, _, _, _)
scan_string_loop(text, p, end, count) ==
    IF p = NullPtr \/ exhausted(p, end) THEN -1
    ELSE IF Byte(text, p) = 92
         THEN Let(skip(text, p, end, 92), LAMBDA p1 :
                 IF p1 = NullPtr \/ exhausted(p1, end) THEN -1
                 ELSE IF BitAnd(Byte(text, p1), 128) # 0 THEN -1
                 ELSE IF Byte(text, p1) # 117
                      THEN scan_string_loop(text, p1 + 1, end, count + 1)
                 ELSE Let(scan_utf16(text, skip(text, p1, end, 117), end), LAMBDA u :
                         IF u.p = NullPtr THEN -1
                         ELSE scan_string_loop(text, u.p, end,
                                               count + utf8_length(u.value))))
    ELSE IF Byte(text, p) = 34 THEN count
    ELSE Let(skip_utf8(text, p, end), LAMBDA p1 :
            IF p1 = NullPtr THEN -1
            ELSE scan_string_loop(text, p1, end, count + (p1 - p)))

scan_string_repr(text, p, end) ==
    scan_string_loop(text, skip(text, p, end, 34), end, 0)

\* the copying loop of decode_string_value: q is the bytes stored so far
RECURSIVE decode_string_loop(_, _, _, _)
decode_string_loop(text, p, end, q) ==
    IF Byte(text, p) = 34 THEN [p |-> p + 1, q |-> q]
    ELSE IF Byte(text, p) # 92
         THEN decode_string_loop(text, p + 1, end, Append(q, Byte(text, p)))
    ELSE Let(Byte(text, p + 1), LAMBDA c :
            IF c = 117
            THEN Let(scan_utf16(text, p + 2, end), LAMBDA u :
                    decode_string_loop(text, u.p, end, q \o utf8_encode(u.value)))
            ELSE decode_string_loop(text, p + 2, end,
                     Append(q, CASE c = 98 -> 8
                                 [] c = 102 -> 12
                                 [] c = 110 -> 10
                                 [] c = 114 -> 13
                                 [] c = 116 -> 9
                                 [] OTHER -> c)))

decode_string_value(text, p, end) ==
    Let(scan_string_repr(text, p, end), LAMBDA size :
    IF size < 0 THEN [p |-> NullPtr, value |-> <<>>, len |-> 0]
    ELSE Let(decode_string_loop(text, skip(text, p, end, 34), end, <<>>), LAMBDA r :
            [p |-> r.p, value |-> r.q, len |-> size]))

decode_string(text, p, end) ==
    Let(decode_string_value(text, p, end), LAMBDA r :
    [p |-> r.p,
     thing |-> IF r.p # NullPtr THEN json_adopt_bounded_string(r.value, r.len)
               ELSE NULL])

(***************************************************************************)
(* Numbers and literals.  A decode function returns the pointer it         *)
(* returns in C and the thing it stores (NULL when it stores none).        *)
(***************************************************************************)
Failed == [p |-> NullPtr, thing |-> NULL]

IsDigit(c) == c >= 48 /\ c <= 57

\* the do-while of scan_integral
RECURSIVE scan_integral_loop(_, _, _)
scan_integral_loop(text, p, end) ==
    Let(skip(text, p, end, Byte(text, p)), LAMBDA p1 :
    IF p1 # NullPtr /\ p1 < end /\ IsDigit(Byte(text, p1))
    THEN scan_integral_loop(text, p1, end)
    ELSE p1)

scan_integral(text, p, end) ==
    IF p = NullPtr \/ exhausted(p, end) THEN NullPtr
    ELSE IF ~IsDigit(Byte(text, p)) THEN NullPtr
    ELSE scan_integral_loop(text, p, end)

\* p thru end is a formally valid floating-point number
decode_float(text, p, end) ==
    Let(encjson_internal_decode_float(SubSeq(text, p + 1, end)), LAMBDA f :
    IF ~f.ok THEN Failed
    ELSE CASE fpclassify(f.value) = "FP_INFINITE" -> Failed
           [] fpclassify(f.value) \in {"FP_ZERO", "FP_SUBNORMAL"} ->
                  [p |-> end, thing |-> json_make_float(DoubleZero(FALSE))]
           [] OTHER -> [p |-> end, thing |-> json_make_float(f.value)])

\* the while loop of decode_unsigned: whether it left by the overflow test,
\* and value
RECURSIVE decode_unsigned_loop(_, _, _, _)
decode_unsigned_loop(text, p, end, value) ==
    IF p < end
    THEN Let(WordMulAdd10(value, Byte(text, p) - 48), LAMBDA new_value :
            IF WordLess(new_value, value)
            THEN [overflow |-> TRUE, value |-> value]
            ELSE Strict(new_value,
                        decode_unsigned_loop(text, p + 1, end, new_value)))
    ELSE [overflow |-> FALSE, value |-> value]

\* p thru end is a formally valid unsigned integer
decode_unsigned(text, p, end) ==
    Let(decode_unsigned_loop(text, p, end, Word(0)), LAMBDA l :
    IF l.overflow THEN decode_float(text, p, end)
    ELSE IF ~IsNegative(l.value)
         THEN [p |-> end, thing |-> json_make_integer(l.value)]
    ELSE [p |-> end, thing |-> json_make_unsigned(l.value)])

scan_exponent(text, p, end) ==
    IF p = NullPtr \/ exhausted(p, end) THEN p
    ELSE IF Byte(text, p) \notin {69, 101} THEN p
    ELSE Let(skip(text, p, end, Byte(text, p)), LAMBDA p1 :
            IF p1 = NullPtr \/ exhausted(p1, end) THEN NullPtr
            ELSE IF Byte(text, p1) \in {43, 45}
                 THEN scan_integral(text, skip(text, p1, end, Byte(text, p1)), end)
            ELSE scan_integral(text, p1, end))

decode_number(text, start, end) ==
    Let(scan_integral(text, start, end), LAMBDA p :
        IF p = NullPtr THEN Failed
        ELSE IF ~exhausted(p, end) /\ Byte(text, p) \in {46, 69, 101}
        THEN \* case '.' flows through into case 'E'
             Let(scan_exponent(text,
                               IF Byte(text, p) = 46
                               THEN scan_integral(text, skip(text, p, end, 46), end)
                               ELSE p,
                               end), LAMBDA p2 :
                 IF p2 = NullPtr THEN Failed ELSE decode_float(text, start, p2))
        ELSE decode_unsigned(text, start, p))

decode_negative_number(text, p, end) ==
    Let(decode_number(text, skip(text, p, end, 45), end), LAMBDA r :
    Let(r.thing, LAMBDA number :
    IF r.p = NullPtr THEN Failed
    ELSE [p |-> r.p,
          thing |->
              CASE number.type = "JSON_UNSIGNED" ->
                       IF WordLess(number.u_integer, LLONG_MIN)
                       THEN json_make_integer(WordNeg(number.u_integer))
                       ELSE json_make_float(
                                DoubleNeg(U64ToDouble(number.u_integer)))
                [] number.type = "JSON_INTEGER" ->
                       IF number.integer = LLONG_MIN
                       THEN json_make_unsigned(LLONG_MIN)
                       ELSE json_make_integer(WordNeg(number.integer))
                [] number.type = "JSON_FLOAT" ->
                       json_make_float(DoubleNeg(number.real))]))

\* p = skip(p, end, c) for each byte c of word in turn
RECURSIVE SkipAll(_, _, _, _)
SkipAll(text, p, end, word) ==
    IF word = <<>> THEN p
    ELSE SkipAll(text, skip(text, p, end, Head(word)), end, Tail(word))

decode_true(text, p, end) ==
    Let(SkipAll(text, p, end, <<116, 114, 117, 101>>), LAMBDA p1 :
    IF p1 = NullPtr THEN Failed
    ELSE [p |-> p1, thing |-> json_make_boolean(TRUE)])

decode_false(text, p, end) ==
    Let(SkipAll(text, p, end, <<102, 97, 108, 115, 101>>), LAMBDA p1 :
    IF p1 = NullPtr THEN Failed
    ELSE [p |-> p1, thing |-> json_make_boolean(FALSE)])

decode_null(text, p, end) ==
    Let(SkipAll(text, p, end, <<110, 117, 108, 108>>), LAMBDA p1 :
    IF p1 = NullPtr THEN Failed
    ELSE [p |-> p1, thing |-> json_make_null])

(***************************************************************************)
(* decode, decode_array and decode_object call one another; the calls in  *)
(* progress are kept on an explicit stack.  A machine m holds the input    *)
(* (text, end), where control is (pc), the arguments of the decode call    *)
(* being entered or the pointer and thing being returned (p, levels,       *)
(* thing), and one frame per decode_array or decode_object call waiting    *)
(* for the decode call it made: its container so far, the key read (of an  *)
(* object), and its own levels argument.                                   *)
(***************************************************************************)
Return(m, p, thing) ==
    [m EXCEPT !.pc = "return", !.p = p,
              !.thing = IF p = NullPtr THEN NULL ELSE thing]

\* a call of decode on the bytes that the caller has read already
Call_again(m, kind, container, key, p, levels) ==
    [m EXCEPT !.pc = "decode", !.levels = levels - 1,
              !.thing = NULL,
              !.stack = Append(@, [kind |-> kind, container |-> container,
                                   key |-> key, levels |-> levels])]

\* decode(p, end, &thing, levels - 1) called from a container's loop;
\* levels is unsigned and above zero here, decode having tested it
Call(m, kind, container, key, p, levels) ==
    [m EXCEPT !.pc = "decode", !.p = p, !.levels = levels - 1,
              !.thing = NULL,
              !.stack = Append(@, [kind |-> kind, container |-> container,
                                   key |-> key, levels |-> levels])]

\* decode_array up to its first call of decode
decode_array(m, p, levels) ==
    Let(json_make_array, LAMBDA array :
    Let(skip_ws(m.text, skip(m.text, p, m.end, 91), m.end), LAMBDA p1 :
    IF p1 = NullPtr \/ exhausted(p1, m.end) THEN Return(m, NullPtr, NULL)
    ELSE IF Byte(m.text, p1) = 93
         THEN Return(m, skip(m.text, p1, m.end, 93), array)
    ELSE Call(m, "array", array, <<>>, p1, levels)))

\* decode_array from the return of decode to the next call or the end
decode_array_resume(m, frame) ==
    IF m.p = NullPtr THEN Return(m, NullPtr, NULL)
    ELSE Let(json_add_to_array(frame.container, m.thing), LAMBDA array :
            Let(skip_ws(m.text, m.p, m.end), LAMBDA p1 :
            Let(skip_ws(m.text, skip(m.text, p1, m.end, 44), m.end), LAMBDA p2 :
            IF p1 = NullPtr \/ exhausted(p1, m.end) THEN Return(m, NullPtr, NULL)
            ELSE IF Byte(m.text, p1) = 93
                 THEN Return(m, skip(m.text, p1, m.end, 93), array)
            ELSE IF p2 = NullPtr THEN Return(m, NullPtr, NULL)
            ELSE Call(m, "array", array, <<>>, p2, frame.levels))))

\* one turn of decode_object's loop, from the key to the call of decode
decode_object_field(m, object, p, levels) ==
    Let(decode_string_value(m.text, p, m.end), LAMBDA k :
    Let(skip_ws(m.text,
                skip(m.text, skip_ws(m.text, k.p, m.end), m.end, 58),
                m.end), LAMBDA p1 :
    IF k.p = NullPtr THEN Return(m, NullPtr, NULL)
    ELSE Call(m, "object", object, k.value, p1, levels)))

\* decode_object up to its first call of decode
decode_object(m, p, levels) ==
    Let(json_make_object, LAMBDA object :
    Let(skip_ws(m.text, skip(m.text, p, m.end, 123), m.end), LAMBDA p1 :
    IF p1 = NullPtr \/ exhausted(p1, m.end) THEN Return(m, NullPtr, NULL)
    ELSE IF Byte(m.text, p1) = 125
         THEN Return(m, skip(m.text, p1, m.end, 125), object)
    ELSE decode_object_field(m, object, p1, levels)))

\* decode_object from the return of decode to the next call or the end
decode_object_resume(m, frame) ==
    IF m.p = NullPtr THEN Return(m, NullPtr, NULL)
    ELSE Let(add_to_object(frame.container, frame.key, m.thing), LAMBDA object :
            Let(skip_ws(m.text, m.p, m.end), LAMBDA p1 :
            Let(skip_ws(m.text, skip(m.text, p1, m.end, 44), m.end), LAMBDA p2 :
            IF p1 = NullPtr \/ exhausted(p1, m.end) THEN Return(m, NullPtr, NULL)
            ELSE IF Byte(m.text, p1) = 125
                 THEN Return(m, skip(m.text, p1, m.end, 125), object)
            ELSE IF p2 = NullPtr THEN Return(m, NullPtr, NULL)
            ELSE decode_object_field(m, object, p2, frame.levels))))

\* decode after its test of levels
decode_switch(m) ==
    Let(skip_ws(m.text, m.p, m.end), LAMBDA p :
    Let(Byte(m.text, p), LAMBDA c :
    LET scalar(r) == Return(m, r.p, r.thing)
        \* json_adopt_bounded_string at the end of decode_string: its assert
        adopted(r) ==
            IF r.p # NullPtr /\ ~charstr_valid_utf8_bounded(r.thing.utf8, r.thing.len)
            THEN [m EXCEPT !.pc = "assert", !.p = r.p, !.thing = r.thing]
            ELSE Return(m, r.p, r.thing)
        \* json_make_float in decode_float and decode_negative_number: its
        \* assert
        made(r) ==
            IF r.p # NullPtr /\ r.thing.type = "JSON_FLOAT" /\ ~isnormal(r.thing.real)
            THEN [m EXCEPT !.pc = "assert", !.p = r.p, !.thing = r.thing]
            ELSE Return(m, r.p, r.thing)
    IN IF p = NullPtr \/ exhausted(p, m.end) THEN Return(m, NullPtr, NULL)
       ELSE CASE c = 91 -> decode_array(m, p, m.levels)
              [] c = 123 -> decode_object(m, p, m.levels)
              [] c = 34 -> adopted(decode_string(m.text, p, m.end))
              [] c = 45 -> made(decode_negative_number(m.text, p, m.end))
              [] c = 116 -> scalar(decode_true(m.text, p, m.end))
              [] c = 102 -> scalar(decode_false(m.text, p, m.end))
              [] c = 110 -> scalar(decode_null(m.text, p, m.end))
              [] OTHER -> IF IsDigit(c)
                          THEN made(decode_number(m.text, p, m.end))
                          ELSE Return(m, NullPtr, NULL)))

\* decode without its test of levels
decode_unchecked(m) == decode_switch(m)

\* decode(m.p, m.end, &thing, m.levels) up to its return or to the call of
\* decode that a container makes
decode(m) ==
    IF m.levels = 0 THEN Return(m, NullPtr, NULL) ELSE decode_switch(m)

\* a return of decode into the container that called it
resume(m) ==
    Let(Last(m.stack), LAMBDA frame :
    Let([m EXCEPT !.stack = Take(@, Len(@) - 1),
                  !.levels = frame.levels], LAMBDA popped :
    IF frame.kind = "array" THEN decode_array_resume(popped, frame)
    ELSE decode_object_resume(popped, frame)))

\* json_utf8_decode from its call of decode on
json_utf8_decode_start(buffer, size) ==
    [text |-> buffer, end |-> size, pc |-> "decode", p |-> 0,
     levels |-> MAX_DECODE_NESTING_LEVELS, stack |-> <<>>, thing |-> NULL]

\* json_utf8_decode after decode has returned: m.thing is what it returns
json_utf8_decode_finish(m) ==
    IF m.p = NullPtr THEN [m EXCEPT !.pc = "done", !.thing = NULL]
    ELSE Let(skip_ws(m.text, m.p, m.end), LAMBDA p :
            [m EXCEPT !.pc = "done", !.p = p,
                      !.thing = IF p # m.end THEN NULL ELSE @])

\* the assert of json_adopt_bounded_string on a string that is not valid
\* UTF-8, or of json_make_float on a value that is not normal: abort() or,
\* compiled with NDEBUG, nothing
assert_failed(m) ==
    [m EXCEPT !.pc = "abort", !.p = NullPtr, !.thing = [type |-> "SIGABRT"]]
assert_skipped(m) == Return(m, m.p, m.thing)

\* one step of the library as built from these sources, asserts compiled in
decode_step(m) ==
    CASE m.pc = "decode" -> decode(m)
      [] m.pc = "assert" -> assert_failed(m)
      [] m.pc = "return" /\ m.stack # <<>> -> resume(m)
      [] m.pc = "return" /\ m.stack = <<>> -> json_utf8_decode_finish(m)
      [] OTHER -> m

\* 2^k steps of the machine, or as many as it takes to come to the end
RECURSIVE decode_run(_, _)
decode_run(m, k) ==
    IF m.pc \in {"done", "abort"} THEN m
    ELSE IF k = 0 THEN decode_step(m)
    ELSE LET half == decode_run(m, k - 1)
         IN Strict(half, decode_run(half, k - 1))

\* json_utf8_decode(buffer, size): the thing returned, or NULL
json_utf8_decode(buffer, size) ==
    decode_run(json_utf8_decode_start(buffer, size), 14).thing

json_utf8_decode_string(encoding) ==
    json_utf8_decode(CStr(encoding), Len(CStr(encoding)))

(***************************************************************************)
(* json_thing_equal.  The call builds the hash table of an object it is    *)
(* given as b, so every function here returns the C result and b as the    *)
(* call leaves it.                                                         *)
(***************************************************************************)
\* mant * 2^(exp - e) for e <= exp
Aligned(d, e) == BigNorm(BigShl(d.mant, d.exp - e))

\* |a| < |b|
DoubleAbsLess(a, b) ==
    IF b.mant = <<>> THEN FALSE
    ELSE IF a.mant = <<>> THEN TRUE
    ELSE IF DoubleTopBit(a) # DoubleTopBit(b) THEN DoubleTopBit(a) < DoubleTopBit(b)
    ELSE Let(IF a.exp < b.exp THEN a.exp ELSE b.exp, LAMBDA e :
            BigCmp(Aligned(a, e), Aligned(b, e)) < 0)

\* fabs(b - a), the difference rounded to a double
DoubleAbsDiff(a, b) ==
    IF a.mant = <<>> THEN [b EXCEPT !.neg = FALSE]
    ELSE IF b.mant = <<>> THEN [a EXCEPT !.neg = FALSE]
    ELSE Let(IF a.exp < b.exp THEN a.exp ELSE b.exp, LAMBDA e :
            Let(Aligned(a, e), LAMBDA x :
            Let(Aligned(b, e), LAMBDA y :
            RoundRatio(FALSE,
                       IF a.neg # b.neg THEN BigAdd(x, y)
                       ELSE IF BigCmp(x, y) < 0 THEN BigSub(y, x)
                       ELSE BigSub(x, y),
                       <<1>>, e))))

\* a == b || fabs(b - a) / fmax(fabs(a), fabs(b)) < tolerance
equal_doubles(a, b, tolerance) ==
    \/ DoubleEq(a, b)
    \/ /\ ~tolerance.neg
       /\ tolerance.mant # <<>>
       /\     Let(DoubleAbsDiff(a, b), LAMBDA diff :
             Let(IF DoubleAbsLess(a, b) THEN b ELSE a, LAMBDA fmax :
             Let(RoundRatio(FALSE, diff.mant, fmax.mant, diff.exp - fmax.exp), LAMBDA ratio :
             fpclassify(diff) # "FP_INFINITE" /\ DoubleAbsLess(ratio, tolerance))))

\* what a call returns, with b as the call leaves it.  fault: the call has
\* read through a NULL pointer, and its behaviour is undefined from there
Outcome(result, b) == [result |-> result, b |-> b, fault |-> FALSE]

\* json_thing_type(thing) for thing NULL: the read of thing->type
NullRead(b) == [result |-> FALSE, b |-> b, fault |-> TRUE]

equal_to_integer(n, b, tolerance) ==
    CASE b.type = "JSON_INTEGER" -> n = b.integer
      [] b.type = "JSON_UNSIGNED" -> ~IsNegative(n) /\ n = b.u_integer
      [] b.type = "JSON_FLOAT" -> equal_doubles(I64ToDouble(n), b.real, tolerance)
      [] OTHER -> FALSE

equal_to_unsigned(n, b, tolerance) ==
    CASE b.type = "JSON_INTEGER" -> ~IsNegative(b.integer) /\ n = b.integer
      [] b.type = "JSON_UNSIGNED" -> n = b.u_integer
      [] b.type = "JSON_FLOAT" -> equal_doubles(U64ToDouble(n), b.real, tolerance)
      [] OTHER -> FALSE

equal_to_float(n, b, tolerance) ==
    /\ b.type \in {"JSON_INTEGER", "JSON_UNSIGNED", "JSON_FLOAT"}
    /\ equal_doubles(n,
                     CASE b.type = "JSON_INTEGER" -> I64ToDouble(b.integer)
                       [] b.type = "JSON_UNSIGNED" -> U64ToDouble(b.u_integer)
                       [] b.type = "JSON_FLOAT" -> b.real,
                     tolerance)

\* the i-th element of array b replaced by thing: the list element and the
\* slot of the lookup table are the same pointer
WithElement(b, i, thing) ==
    [b EXCEPT !.elements[i] = thing,
              !.lookup_table = IF @ = <<>> THEN @
                               ELSE <<[@[1] EXCEPT ![i] = thing]>>]

\* the value that the hash table of object b holds under key replaced by
\* thing: it is the value of the last field of that name
WithValue(b, key, thing) ==
    Let({i \in 1..Len(b.fields) : strcmp_equal(b.fields[i].name, key)}, LAMBDA named :
    Let(CHOOSE i \in named : \A j \in named : j <= i, LAMBDA last :
    [b EXCEPT !.fields[last].value = thing,
              !.lookup_table = <<hash_table_put(@[1], key, thing)>>]))

RECURSIVE json_thing_equal(_, _, _)
RECURSIVE equal_arrays_loop(_, _, _, _)
RECURSIVE equal_objects_loop(_, _, _, _)

\* the for (;;) of equal_arrays, ea and eb at element i
equal_arrays_loop(a, b, i, tolerance) ==
    IF i > Len(a.elements) THEN Outcome(i > Len(b.elements), b)
    ELSE IF i > Len(b.elements) THEN Outcome(FALSE, b)
    ELSE LET r == json_thing_equal(a.elements[i], b.elements[i], tolerance)
             b2 == IF r.b = b.elements[i] THEN b ELSE WithElement(b, i, r.b)
         IN IF ~r.result THEN [r EXCEPT !.b = b2]
            ELSE Strict(b2, equal_arrays_loop(a, b2, i + 1, tolerance))

equal_arrays(a, b, tolerance) ==
    IF list_size(a.elements) # list_size(b.elements) THEN Outcome(FALSE, b)
    ELSE equal_arrays_loop(a, b, 1, tolerance)

\* the for loop of equal_objects, fa at field i
equal_objects_loop(a, b, i, tolerance) ==
    IF i > Len(a.fields) THEN Outcome(TRUE, b)
    ELSE LET got == json_object_get(b, a.fields[i].name)
             r == json_thing_equal(a.fields[i].value, got.ret, tolerance)
             b2 == IF r.b = got.ret THEN got.object
                   ELSE WithValue(got.object, a.fields[i].name, r.b)
         IN IF got.ret = NULL THEN Outcome(FALSE, got.object)
            ELSE IF ~r.result THEN [r EXCEPT !.b = b2]
            ELSE Strict(b2, equal_objects_loop(a, b2, i + 1, tolerance))

\* equal_objects without its comparison of the sizes
equal_objects_unsized(a, b, tolerance) ==
    equal_objects_loop(
        a, IF b.lookup_table = <<>> THEN optimize_object(b) ELSE b,
        1, tolerance)

equal_objects(a, b, tolerance) ==
    IF list_size(a.fields) # list_size(b.fields) THEN Outcome(FALSE, b)
    ELSE equal_objects_loop(
             a, IF b.lookup_table = <<>> THEN optimize_object(b) ELSE b,
             1, tolerance)

\* b is NULL when it is b_dec of the call above, for a Raw that does not
\* decode
json_thing_equal(a, b, tolerance) ==
    IF b = NULL THEN NullRead(b)
    ELSE IF b.type = "JSON_RAW"
    THEN [json_thing_equal(a, json_utf8_decode_string(b.repr), tolerance)
             EXCEPT !.b = b]
    ELSE CASE a.type = "JSON_ARRAY" ->
                  IF b.type = "JSON_ARRAY" THEN equal_arrays(a, b, tolerance)
                  ELSE Outcome(FALSE, b)
           [] a.type = "JSON_OBJECT" ->
                  IF b.type = "JSON_OBJECT" THEN equal_objects(a, b, tolerance)
                  ELSE Outcome(FALSE, b)
           [] a.type = "JSON_STRING" ->
                  Outcome(b.type = "JSON_STRING" /\ strcmp_equal(a.utf8, b.utf8), b)
           [] a.type = "JSON_INTEGER" ->
                  Outcome(equal_to_integer(a.integer, b, tolerance), b)
           [] a.type = "JSON_UNSIGNED" ->
                  Outcome(equal_to_unsigned(a.u_integer, b, tolerance), b)
           [] a.type = "JSON_FLOAT" ->
                  Outcome(equal_to_float(a.real, b, tolerance), b)
           [] a.type = "JSON_BOOLEAN" ->
                  Outcome(b.type = "JSON_BOOLEAN" /\ a.boolean = b.boolean, b)
           [] a.type = "JSON_NULL" -> Outcome(b.type = "JSON_NULL", b)
           [] a.type = "JSON_RAW" ->
                  [json_thing_equal(b, a, tolerance) EXCEPT !.b = b]

\* what the caller of json_thing_equal gets: the value returned or, the call
\* having read through NULL, what undefined behaviour may give: the process
\* killed by a signal, or a return of either value
Returned(r) ==
    IF r.fault
    THEN {[type |-> "SIGSEGV"], [type |-> "bool", truth |-> TRUE],
          [type |-> "bool", truth |-> FALSE]}
    ELSE {[type |-> "bool", truth |-> r.result]}

(***************************************************************************)
(* json_trace and json_trace_max_size.  A block of the heap is known by    *)
(* its address; heap[a] is the bytes of the block at a, or Free.  fsrealloc *)
(* gives a block here as everywhere in encjson.c, where its result is used *)
(* unchecked (read_file); the branch of json_trace for NULL is kept.       *)
(* fs_reallocator_skew is the allocator's own bookkeeping and has no part  *)
(* here.                                                                   *)
(***************************************************************************)
Free == <<-1>>

\* TRACE_SLOTS blocks and the one more a moving fsrealloc needs
Addresses == 0..TRACE_SLOTS

NoTrace ==
    [next_slot |-> 0, slots |-> [k \in 1..TRACE_SLOTS |-> NullPtr],
     max_size |-> TRACE_DEFAULT_SIZE]

NoHeap == [a \in Addresses |-> Free]

\* the addresses fsrealloc(slot, n) may return: slot itself, grown or shrunk
\* in place, or the free block of least address
fsrealloc(blocks, slot) ==
    (IF slot = NullPtr THEN {} ELSE {slot})
        \cup {a \in Addresses :
                 blocks[a] = Free /\ \A b \in Addresses : b < a => blocks[b] # Free}

\* a returned const char *
StringAt(buf) == [type |-> "char *", at |-> buf]

\* json_trace that stores into the slot and leaves next_slot as it is
json_trace_in_place(thing, td, blocks, buf) ==
    Let(json_utf8_encode(thing, 0).count, LAMBDA count :
    Let(IF count > td.max_size THEN td.max_size ELSE count, LAMBDA size :
    Let((td.next_slot % TRACE_SLOTS) + 1, LAMBDA k :
        [trace_data |-> [td EXCEPT !.max_size = TRACE_DEFAULT_SIZE, !.slots[k] = buf],
         heap |-> [a \in Addresses |->
                      IF a = buf THEN json_utf8_encode(thing, size + 1).written
                      ELSE IF a = td.slots[k] THEN Free ELSE blocks[a]],
         ret |-> StringAt(buf)])))

\* json_trace(p), buf the block that fsrealloc(slot, size + 1) returns;
\* next_slot stays far below UINT_MAX here
json_trace(thing, td, blocks, buf) ==
    Let(json_utf8_encode(thing, 0).count, LAMBDA count :
    Let(IF count > td.max_size THEN td.max_size ELSE count, LAMBDA size :
    Let((td.next_slot % TRACE_SLOTS) + 1, LAMBDA k :
    IF buf = NullPtr
    THEN [trace_data |-> [td EXCEPT !.max_size = TRACE_DEFAULT_SIZE],
          heap |-> blocks, ret |-> StringAt(NullPtr)]
    ELSE [trace_data |-> [td EXCEPT !.max_size = TRACE_DEFAULT_SIZE,
                                    !.slots[k] = buf,
                                    !.next_slot = @ + 1],
          heap |-> [a \in Addresses |->
                       IF a = buf THEN json_utf8_encode(thing, size + 1).written
                       ELSE IF a = td.slots[k] THEN Free ELSE blocks[a]],
          ret |-> StringAt(buf)])))

\* json_trace_max_size(p) with *p = size
json_trace_max_size(td, size) == [td EXCEPT !.max_size = size]

(***************************************************************************)
(* json_utf8_decode_file.  A FILE is the bytes left to read and the number *)
(* of them that fread delivers before it meets a read error (-1: it meets  *)
(* none).  A function here returns the C result and errno as it leaves it. *)
(***************************************************************************)
\* sizeof buf in read_file
BufSize == 4096

\* the least power of two that is >= n, from nbytes = 1
RECURSIVE Doubled(_, _)
Doubled(nbytes, n) == IF nbytes < n THEN Doubled(2 * nbytes, n) ELSE nbytes

\* read_file returning NULL, and a memcpy beyond the end of buffer
NoBuffer == <<-1>>
Overrun == <<-2>>

Read(buffer, size, errno) == [buffer |-> buffer, size |-> size, errno |-> errno]

\* the for (;;) of read_file: pos bytes of f have been read and buffer, of
\* nbytes bytes, holds them
RECURSIVE read_file_loop(_, _, _, _, _, _)
read_file_loop(f, max_size, pos, nbytes, buffer, errno) ==
    LET size == Len(buffer)
        good == IF f.good < 0 \/ f.good > Len(f.bytes) THEN Len(f.bytes) ELSE f.good
        count == IF good - pos < BufSize THEN good - pos ELSE BufSize
        n == size + count
        grown == IF nbytes >= n THEN nbytes
                 ELSE IF n > max_size \div 2 THEN max_size
                 ELSE Doubled(1, n)
    IN IF f.good >= 0 /\ good - pos < BufSize THEN Read(NoBuffer, size, "EIO")
       ELSE IF count = 0 THEN Read(buffer, size, errno)
       ELSE IF count > max_size - size THEN Read(NoBuffer, size, "ENOMEM")
       \* memcpy(buffer + *size, buf, count) into a buffer of grown bytes
       ELSE IF n > grown THEN Read(Overrun, size, errno)
       ELSE read_file_loop(f, max_size, pos + count, grown,
                           buffer \o [i \in 1..count |-> f.bytes[pos + i]],
                           errno)

\* read_file that takes max_size for the first size it refuses
read_file_below(f, max_size, errno) ==
    read_file_loop(f, max_size - 1, 0, 512, <<>>, errno)

read_file(f, max_size, errno) == read_file_loop(f, max_size, 0, 512, <<>>, errno)

json_utf8_decode_file(f, max_size, errno) ==
    Let(read_file(f, max_size, errno), LAMBDA r :
    IF r.buffer = NoBuffer THEN [ret |-> NULL, errno |-> r.errno]
    ELSE IF r.buffer = Overrun THEN [ret |-> [type |-> "overflow"], errno |-> r.errno]
    ELSE Let(json_utf8_decode(r.buffer, r.size), LAMBDA thing :
         IF thing = NULL THEN [ret |-> NULL, errno |-> "EINVAL"]
         ELSE [ret |-> thing, errno |-> r.errno]))

(***************************************************************************)
(* Navigation of nested objects.  json_object_get counts the lookups in    *)
(* the object it is given, so a function here returns the C result and the *)
(* thing it was given as the call leaves it.                               *)
(***************************************************************************)
\* object o with thing in place of the value of the field of o that
\* json_object_get(o, key) returns: the value is the same pointer in the
\* list and in the hash table
WithFound(o, key, thing) ==
    IF o.lookup_table # <<>> THEN WithValue(o, key, thing)
    ELSE Let({i \in 1..Len(o.fields) : strcmp_equal(o.fields[i].name, key)}, LAMBDA named :
         [o EXCEPT !.fields[CHOOSE i \in named : \A j \in named : i <= j].value = thing])

Dug(result, thing) == [ret |-> result, thing |-> thing]

\* the for loop of json_object_dig at i (from 1)
RECURSIVE json_object_dig_loop(_, _, _, _)
json_object_dig_loop(thing, keys, num_keys, i) ==
    IF i > num_keys THEN Dug(thing, thing)
    ELSE IF thing = NULL \/ thing.type # "JSON_OBJECT" THEN Dug(NULL, thing)
    ELSE LET got == json_object_get(thing, keys[i])
             rest == json_object_dig_loop(got.ret, keys, num_keys, i + 1)
         IN Dug(rest.ret, IF rest.thing = got.ret THEN got.object
                          ELSE WithFound(got.object, keys[i], rest.thing))

\* json_object_dig that looks the first key up and no other
json_object_dig_once(thing, keys, num_keys) ==
    json_object_dig_loop(thing, keys, IF num_keys > 1 THEN 1 ELSE num_keys, 1)

json_object_dig(thing, keys, num_keys) ==
    json_object_dig_loop(thing, keys, num_keys, 1)

\* (char *) NULL where a key is expected: no string of bytes
NullKey == <<-1>>

\* the while loop of json_object_fetch_func, key being args[i]; args is key
\* and the arguments after it, the last of them NULL
RECURSIVE json_object_fetch_loop(_, _, _)
json_object_fetch_loop(thing, args, i) ==
    IF args[i] = NullKey THEN Dug(thing, thing)
    ELSE IF thing = NULL \/ thing.type # "JSON_OBJECT" THEN Dug(NULL, thing)
    ELSE LET got == json_object_get(thing, args[i])
             rest == json_object_fetch_loop(got.ret, args, i + 1)
         IN Dug(rest.ret, IF rest.thing = got.ret THEN got.object
                          ELSE WithFound(got.object, args[i], rest.thing))

json_object_fetch_func(thing, args) == json_object_fetch_loop(thing, args, 1)

\* the macro json_object_fetch(object, ...)
json_object_fetch(object, keys) ==
    json_object_fetch_func(object, Append(keys, NullKey))

(***************************************************************************)
(* The casts.  A cast returns the C result and the variable n points to as *)
(* the call leaves it.                                                     *)
(***************************************************************************)
\* a variable nothing has been stored in
Unwritten == [type |-> "unwritten"]

Cast(result, n) == [ret |-> result, n |-> n]

\* binary64_to_integer and binary64_to_unsigned of fsdyn (fsdyn/float.h):
\* true, with the integer stored, when the double is an integer of the
\* range of the type
binary64_to_integer(d, n) ==
    IF d.mant = <<>> THEN Cast(TRUE, Word(0))
    ELSE IF d.exp < 0 \/ DoubleTopBit(d) > 63 THEN Cast(FALSE, n)
    ELSE Let(ToWord(BigShl(d.mant, d.exp)), LAMBDA w :
            IF ~IsNegative(w) THEN Cast(TRUE, IF d.neg THEN WordNeg(w) ELSE w)
            ELSE IF d.neg /\ w = LLONG_MIN THEN Cast(TRUE, w)
            ELSE Cast(FALSE, n))

binary64_to_unsigned(d, n) ==
    IF d.mant = <<>> THEN Cast(TRUE, Word(0))
    ELSE IF d.neg \/ d.exp < 0 \/ DoubleTopBit(d) > 63 THEN Cast(FALSE, n)
    ELSE Cast(TRUE, ToWord(BigShl(d.mant, d.exp)))

\* json_cast_to_integer storing every Unsigned
json_cast_to_integer_wrapping(thing, n) ==
    CASE thing.type = "JSON_INTEGER" -> Cast(TRUE, thing.integer)
      [] thing.type = "JSON_UNSIGNED" -> Cast(TRUE, thing.u_integer)
      [] thing.type = "JSON_FLOAT" -> binary64_to_integer(thing.real, n)
      [] OTHER -> Cast(FALSE, n)

json_cast_to_integer(thing, n) ==
    CASE thing.type = "JSON_INTEGER" -> Cast(TRUE, thing.integer)
      [] thing.type = "JSON_UNSIGNED" ->
             \* long long value = json_unsigned_value(thing)
             IF IsNegative(thing.u_integer) THEN Cast(FALSE, n)
             ELSE Cast(TRUE, thing.u_integer)
      [] thing.type = "JSON_FLOAT" -> binary64_to_integer(thing.real, n)
      [] OTHER -> Cast(FALSE, n)

json_cast_to_unsigned(thing, n) ==
    CASE thing.type = "JSON_INTEGER" ->
             IF IsNegative(thing.integer) THEN Cast(FALSE, n)
             ELSE Cast(TRUE, thing.integer)
      [] thing.type = "JSON_UNSIGNED" -> Cast(TRUE, thing.u_integer)
      [] thing.type = "JSON_FLOAT" -> binary64_to_unsigned(thing.real, n)
      [] OTHER -> Cast(FALSE, n)

(***************************************************************************)
(* Containers under the public calls.  A behaviour works on one array or   *)
(* one object.  It starts with the container empty, or with JIT_SIZE_LIMIT *)
(* elements added and as many lookups of a missing key (of the last place, *)
(* for an array) done as leave the access counter a few lookups short of   *)
(* JIT_ACCESS_LIMIT.  The value added by the i-th call of json_add_to_...  *)
(* (from 0) is the Integer i; the key of a new field is the decimal        *)
(* numeral of the least number not in use as a key.                        *)
(***************************************************************************)
KeyOf(i) == DecimalBytes(i)

AbsentKey == <<120>>

NewValue(i) == json_make_integer(Word(i))

RECURSIVE BuildArray(_, _)
BuildArray(a, n) ==
    IF list_size(a.elements) >= n THEN a
    ELSE LET a2 == json_add_to_array(a, NewValue(list_size(a.elements)))
         IN Strict(a2, BuildArray(a2, n))

RECURSIVE BuildObject(_, _)
BuildObject(o, n) ==
    IF list_size(o.fields) >= n THEN o
    ELSE LET o2 == json_add_to_object(o, KeyOf(list_size(o.fields)),
                                      NewValue(list_size(o.fields)))
         IN Strict(o2, BuildObject(o2, n))

\* the array after k calls json_array_get(a, n)
RECURSIVE ArrayAfterGets(_, _, _)
ArrayAfterGets(a, n, k) ==
    IF k = 0 THEN a
    ELSE IF k = 1 THEN json_array_get(a, n).array
    ELSE LET a2 == ArrayAfterGets(a, n, k \div 2)
         IN Strict(a2, ArrayAfterGets(a2, n, k - (k \div 2)))

\* the object after k calls json_object_get(o, key)
RECURSIVE ObjectAfterGets(_, _, _)
ObjectAfterGets(o, key, k) ==
    IF k = 0 THEN o
    ELSE LET o2 == json_object_get(o, key).object
         IN Strict(o2, ObjectAfterGets(o2, key, k - 1))

\* an object built by json_add_to_object from the first i of the given
\* fields, last first
RECURSIVE Mirror(_, _, _)
Mirror(o, fields, i) ==
    IF i = 0 THEN o
    ELSE LET o2 == json_add_to_object(o, fields[i].name, fields[i].value)
         IN Strict(o2, Mirror(o2, fields, i - 1))

\* the lookups a behaviour of a large container starts with
StartGets == JIT_ACCESS_LIMIT \div JIT_SIZE_LIMIT

\* the containers a behaviour starts with: of start elements or fields,
\* after lookups calls json_array_get(a, index) or json_object_get(o,
\* AbsentKey)
Starts ==
    [part : {"array", "object"}, start : {0}, lookups : {0}, index : {0}]
        \cup [part : {"array"}, start : {JIT_SIZE_LIMIT},
              lookups : {StartGets}, index : {JIT_SIZE_LIMIT - 1}]
        \cup [part : {"array"}, start : {JIT_SIZE_LIMIT},
              lookups : {JIT_ACCESS_LIMIT - 1, JIT_ACCESS_LIMIT}, index : {0, 1}]
        \cup [part : {"object"}, start : {JIT_SIZE_LIMIT},
              lookups : {StartGets}, index : {0}]

StartArray(w) ==
    ArrayAfterGets(BuildArray(json_make_array, w.start), w.index, w.lookups)

StartObject(w) ==
    ObjectAfterGets(BuildObject(json_make_object, w.start), AbsentKey, w.lookups)

Names(o) == {CStr(o.fields[i].name) : i \in 1..Len(o.fields)}

FreshKey(o) ==
    Let(Names(o), LAMBDA names :
    Let({i \in 0..Len(o.fields) : KeyOf(i) \notin names}, LAMBDA free :
    KeyOf(CHOOSE i \in free : \A j \in free : i <= j)))

\* the arguments tried: the first places or keys of a container that starts
\* empty, the last of one that starts large, and one never in use
ArrayIndexes ==
    IF which.start = 0 THEN {0, 1, MaxAdds + 1}
    ELSE {which.start - 1, which.start, which.start + MaxAdds + 1}

HotKey == IF which.start = 0 THEN KeyOf(0) ELSE KeyOf(which.start - 1)

ObjectKeys ==
    IF which.start = 0 THEN {HotKey, KeyOf(1), AbsentKey}
    ELSE {HotKey, AbsentKey}

NoCall == [name |-> "none", n |-> 0, key |-> <<>>]

\* no value and no text at hand, no encoder call made, no decoder running
NoJob == [kind |-> "none", thing |-> NULL, text |-> <<>>]
NoEncoding ==
    [call |-> "none", size |-> 0, left_margin |-> 0, indentation |-> 0,
     count |-> 0, written |-> <<>>]
NoDecoding ==
    [text |-> <<>>, end |-> 0, pc |-> "idle", p |-> 0,
     levels |-> MAX_DECODE_NESTING_LEVELS, stack |-> <<>>, thing |-> NULL]

InitContainers ==
    /\ which \in Starts
    /\ the_array = IF which.part = "array" THEN StartArray(which)
                   ELSE json_make_array
    /\ the_object = IF which.part = "object" THEN StartObject(which)
                    ELSE json_make_object
    /\ nextId = which.start
    /\ ret = NULL
    /\ op = NoCall
    /\ gets = 0
    /\ job = NoJob
    /\ enc = NoEncoding
    /\ dec = NoDecoding
    /\ trace_data = NoTrace
    /\ heap = NoHeap
    /\ traced = <<>>

AddToArray ==
    /\ which.part = "array"
    /\ nextId - which.start < MaxAdds
    /\ the_array' = json_add_to_array(the_array, NewValue(nextId))
    /\ nextId' = nextId + 1
    /\ ret' = NULL
    /\ op' = [NoCall EXCEPT !.name = "json_add_to_array"]
    /\ UNCHANGED <<trace_data, heap, traced, which,
                   the_object, gets, job, enc, dec>>

ArrayGet ==
    /\ which.part = "array"
    /\ gets < MaxGets
    /\ \E n \in ArrayIndexes :
           \E r \in {json_array_get(the_array, n)} :
              /\ the_array' = r.array
              /\ ret' = r.ret
              /\ op' = [NoCall EXCEPT !.name = "json_array_get", !.n = n]
    /\ gets' = gets + 1
    /\ UNCHANGED <<trace_data, heap, traced, which,
                   the_object, nextId, job, enc, dec>>

AddToObject ==
    /\ which.part = "object"
    /\ nextId - which.start < MaxAdds
    /\ \E key \in {FreshKey(the_object)}
                  \cup (LET names == Names(the_object)
                        IN IF /\ HotKey \in names
                              /\ Len(the_object.fields) - Cardinality(names)
                                     < MaxDups
                           THEN {HotKey} ELSE {}) :
           /\ the_object' = json_add_to_object(the_object, key, NewValue(nextId))
           /\ op' = [NoCall EXCEPT !.name = "json_add_to_object", !.key = key]
    /\ nextId' = nextId + 1
    /\ ret' = NULL
    /\ UNCHANGED <<trace_data, heap, traced, which,
                   the_array, gets, job, enc, dec>>

ObjectPop ==
    /\ which.part = "object"
    /\ \E key \in ObjectKeys :
           \E r \in {json_object_pop(the_object, key)} :
              /\ r.ret # NULL => nextId - Len(the_object.fields) < MaxPops
              /\ the_object' = r.object
              /\ ret' = r.ret
              /\ op' = [NoCall EXCEPT !.name = "json_object_pop", !.key = key]
    /\ UNCHANGED <<trace_data, heap, traced, which,
                   the_array, nextId, gets, job, enc, dec>>

ObjectGet ==
    /\ which.part = "object"
    /\ gets < MaxGets
    /\ \E key \in ObjectKeys :
           \E r \in {json_object_get(the_object, key)} :
              /\ the_object' = r.object
              /\ ret' = r.ret
              /\ op' = [NoCall EXCEPT !.name = "json_object_get", !.key = key]
    /\ gets' = gets + 1
    /\ UNCHANGED <<trace_data, heap, traced, which,
                   the_array, nextId, job, enc, dec>>

\* json_thing_equal(a, b, 0) with b the container and a built like it
ThingEqual ==
    /\ \E r \in {json_thing_equal(
                      IF which.part = "array"
                      THEN BuildArray(json_make_array, Len(the_array.elements))
                      ELSE Mirror(json_make_object, the_object.fields,
                                  Len(the_object.fields)),
                      IF which.part = "array" THEN the_array ELSE the_object,
                      DoubleZero(FALSE))} :
          /\ the_array' = IF which.part = "array" THEN r.b ELSE the_array
          /\ the_object' = IF which.part = "object" THEN r.b ELSE the_object
          /\ ret' \in Returned(r)
    /\ op' = [NoCall EXCEPT !.name = "json_thing_equal"]
    /\ UNCHANGED <<trace_data, heap, traced, which,
                   nextId, gets, job, enc, dec>>

Next == AddToArray \/ ArrayGet \/ AddToObject \/ ObjectPop \/ ObjectGet \/ ThingEqual

Spec == InitContainers /\ [][Next]_vars

(***************************************************************************)
(* Properties of the containers.                                           *)
(***************************************************************************)
\* C4: json_array_get(a, n) returns the element appended n-th (from 0), the
\* Integer n here, when n < json_array_size(a), and NULL when
\* n >= json_array_size(a), with the lookup table built or not
ArrayIndexTransparency ==
    op.name = "json_array_get" =>
        ret = IF op.n < json_array_size(the_array) THEN NewValue(op.n) ELSE NULL

\* C4 witness: a lookup through the built table has returned an element
ArrayGetThroughTable ==
    /\ op.name = "json_array_get"
    /\ the_array.lookup_table # <<>>
    /\ op.n > 0
    /\ ret = NewValue(op.n)

DistinctKeys(o) == Cardinality(Names(o)) = Len(o.fields)

\* the value of a field of o named key, NULL when there is none
Stored(o, key) ==
    Let({i \in 1..Len(o.fields) : strcmp_equal(o.fields[i].name, key)}, LAMBDA named :
    IF named = {} THEN NULL
    ELSE o.fields[CHOOSE i \in named : TRUE].value)

\* C5: on an object whose keys are pairwise distinct, json_object_get(o, k)
\* returns the value stored under k, or NULL when no field has key k, with
\* the hash table built or not
ObjectIndexTransparency ==
    (op.name = "json_object_get" /\ DistinctKeys(the_object)) =>
        ret = Stored(the_object, op.key)

\* C5 witness: after a field was popped, a lookup through the built hash
\* table of an object of distinct keys has returned a value
ObjectGetThroughTable ==
    /\ op.name = "json_object_get"
    /\ the_object.lookup_table # <<>>
    /\ DistinctKeys(the_object)
    /\ nextId > Len(the_object.fields)
    /\ ret # NULL

\* a lookup table that exists has one slot per list element, slot i holding
\* the i-th element; a hash table that exists has the keys of the field
\* list, each mapped to the value of a field of that name
OverlayConsistent ==
    /\ the_array.lookup_table # <<>> =>
              Let(the_array.lookup_table[1], LAMBDA t :
              /\ Len(t) = Len(the_array.elements)
              /\ \A i \in 1..Len(t) : t[i] = the_array.elements[i])
    /\ the_object.lookup_table # <<>> =>
              Let(the_object.lookup_table[1], LAMBDA t :
              /\ DOMAIN t = Names(the_object)
              /\ \A k \in DOMAIN t :
                     \E i \in 1..Len(the_object.fields) :
                         /\ strcmp_equal(the_object.fields[i].name, k)
                         /\ the_object.fields[i].value = t[k])

\* a call that changes the list leaves no overlay behind
MutationDiscards ==
    /\ the_array'.elements # the_array.elements => the_array'.lookup_table = <<>>
    /\ the_object'.fields # the_object.fields => the_object'.lookup_table = <<>>

\* C6: in every reachable state an overlay that exists agrees with the
\* list, and every mutating call discards the overlay
OverlayConsistency == []OverlayConsistent /\ [][MutationDiscards]_vars

\* C6 witness: a hash table stands built on an object that has had a field
\* added and a field popped
OverlayAfterMutations ==
    /\ the_object.lookup_table # <<>>
    /\ nextId > which.start
    /\ nextId > Len(the_object.fields)

(***************************************************************************)
(* Encoding and decoding: the values handed to json_utf8_encode and        *)
(* json_utf8_prettyprint and the texts handed to json_utf8_decode.         *)
(***************************************************************************)
\* the bytes a buffer of the largest size tried can hold
MaxSize == 10
\* the widest left margin and indentation tried
MaxMargin == 1
MaxIndentation == 2
\* a buffer that holds every encoding of the values below
LargeBuffer == 160

\* json_add_to_array of each of elements in turn
RECURSIVE ArrayOf(_, _)
ArrayOf(a, elements) ==
    IF elements = <<>> THEN a
    ELSE LET a2 == json_add_to_array(a, Head(elements))
         IN Strict(a2, ArrayOf(a2, Tail(elements)))

\* json_add_to_object of each <<key, value>> of fields in turn
RECURSIVE ObjectOf(_, _)
ObjectOf(o, fields) ==
    IF fields = <<>> THEN o
    ELSE LET o2 == json_add_to_object(o, Head(fields)[1], Head(fields)[2])
         IN Strict(o2, ObjectOf(o2, Tail(fields)))

ScalarValues ==
    { NewValue(0), NewValue(42), json_make_integer(WordNeg(Word(1))),
      json_make_integer(LLONG_MAX), json_make_integer(LLONG_MIN),
      json_make_unsigned(Word(5)), json_make_unsigned(LLONG_MIN),
      json_make_unsigned(ULLONG_MAX),
      json_make_boolean(TRUE), json_make_boolean(FALSE), json_make_null }

StringValues ==
    \* the empty string
    { json_make_string(<<>>),
    \* abc
      json_make_string(<<97, 98, 99>>),
    \* a quote, a backslash, a slash, LF, TAB, U+0001 and DEL
      json_make_string(<<34, 92, 47, 10, 9, 1, 127>>),
    \* U+00E9, U+0085 (a Latin-1 control), U+20AC and U+1F600
      json_make_string(<<195, 169, 194, 133, 226, 130, 172, 240, 159, 152, 128>>),
    \* a NUL between a and b
      json_adopt_bounded_string(<<97, 0, 98>>, 3) }

KeyA == <<97>>
KeyB == <<98>>
\* a key with a quote and a line feed
KeyEscaped == <<107, 34, 10>>
\* a key that is not UTF-8
KeyBad == <<255>>

ContainerValues ==
    { json_make_array,
      json_make_object,
      ArrayOf(json_make_array, <<NewValue(1), json_make_string(KeyA)>>),
      ArrayOf(json_make_array,
              <<ArrayOf(json_make_array, <<json_make_boolean(TRUE), json_make_null>>),
                json_make_array, json_make_unsigned(ULLONG_MAX)>>),
      ArrayOf(json_make_array,
              <<ArrayOf(json_make_array, <<ArrayOf(json_make_array, <<json_make_array>>)>>)>>),
      ObjectOf(json_make_object, <<<<KeyA, NewValue(1)>>, <<KeyB, NewValue(2)>>>>),
      ObjectOf(json_make_object,
               <<<<KeyA, ObjectOf(json_make_object, <<<<KeyA, json_make_array>>>>)>>,
                 <<KeyEscaped, json_make_integer(LLONG_MIN)>>,
                 <<<<>>, json_make_string(KeyB)>>>>),
      ArrayOf(json_make_array,
              <<ObjectOf(json_make_object, <<<<KeyB, json_make_object>>>>), NewValue(3)>>) }

\* objects json_add_to_object builds that hold a key twice, or a key that is
\* not UTF-8
OddObjects ==
    { ObjectOf(json_make_object, <<<<KeyA, NewValue(1)>>, <<KeyA, NewValue(2)>>>>),
      ObjectOf(json_make_object, <<<<KeyA, NewValue(1)>>, <<KeyA, NewValue(1)>>>>),
      ArrayOf(json_make_array,
              <<ObjectOf(json_make_object,
                         <<<<KeyA, NewValue(1)>>, <<KeyB, NewValue(2)>>, <<KeyA, NewValue(3)>>>>)>>),
      ObjectOf(json_make_object, <<<<KeyBad, NewValue(1)>>>>) }

\* 1.5, 0.1 and an array holding -0.25
FloatValues ==
    { json_make_float(MakeDouble(FALSE, <<3>>, -1)),
      json_make_float(DecimalToDouble(<<48, 46, 49>>)),
      ArrayOf(json_make_array, <<json_make_float(MakeDouble(TRUE, <<1>>, -2))>>) }

RawValues ==
    \* [1, 2]
    { json_make_raw(<<91, 49, 44, 32, 50, 93>>),
    \* {"a": [1, 2]} with a Raw element
      ObjectOf(json_make_object, <<<<KeyA, json_make_raw(<<91, 49, 44, 32, 50, 93>>)>>>>),
    \* {"y": 7}
      json_make_raw(<<123, 34, 121, 34, 58, 32, 55, 125>>) }

JobValues ==
    ScalarValues \cup StringValues \cup ContainerValues \cup OddObjects
        \cup FloatValues \cup RawValues

\* k times '[', and k times ']'
Opens(k) == [i \in 1..k |-> 91]
Closes(k) == [i \in 1..k |-> 93]

\* texts about the nesting limit
NestedTexts ==
    { Opens(MAX_DECODE_NESTING_LEVELS + 1),
      Opens(MAX_DECODE_NESTING_LEVELS) \o Closes(MAX_DECODE_NESTING_LEVELS),
      Opens(MAX_DECODE_NESTING_LEVELS) \o <<49>> \o Closes(MAX_DECODE_NESTING_LEVELS),
      Opens(MAX_DECODE_NESTING_LEVELS) \o <<123, 125>>
          \o Closes(MAX_DECODE_NESTING_LEVELS),
      Opens(MAX_DECODE_NESTING_LEVELS - 1) \o <<123, 125>>
          \o Closes(MAX_DECODE_NESTING_LEVELS - 1),
      Opens(3) \o <<49>> \o Closes(3) }

JobTexts ==
    \* 0
    { <<48>>,
    \* 7
      <<55>>,
    \* 007
      <<48, 48, 55>>,
    \* 9223372036854775807
      <<57, 50, 50, 51, 51, 55, 50, 48, 51, 54, 56, 53, 52, 55, 55, 53, 56, 48, 55>>,
    \* 9223372036854775808
      <<57, 50, 50, 51, 51, 55, 50, 48, 51, 54, 56, 53, 52, 55, 55, 53, 56, 48, 56>>,
    \* 18446744073709551615
      <<49, 56, 52, 52, 54, 55, 52, 52, 48, 55, 51, 55, 48, 57, 53, 53, 49, 54, 49, 53>>,
    \* 18446744073709551616
      <<49, 56, 52, 52, 54, 55, 52, 52, 48, 55, 51, 55, 48, 57, 53, 53, 49, 54, 49, 54>>,
    \* 30000000000000000000
      <<51, 48, 48, 48, 48, 48, 48, 48, 48, 48, 48, 48, 48, 48, 48, 48, 48, 48, 48, 48>>,
    \* 100000000000000000000
      <<49, 48, 48, 48, 48, 48, 48, 48, 48, 48, 48, 48, 48, 48, 48, 48, 48, 48, 48, 48, 48>>,
    \* -0
      <<45, 48>>,
    \* -1
      <<45, 49>>,
    \* -9223372036854775807
      <<45, 57, 50, 50, 51, 51, 55, 50, 48, 51, 54, 56, 53, 52, 55, 55, 53, 56, 48, 55>>,
    \* -9223372036854775808
      <<45, 57, 50, 50, 51, 51, 55, 50, 48, 51, 54, 56, 53, 52, 55, 55, 53, 56, 48, 56>>,
    \* -9223372036854775809
      <<45, 57, 50, 50, 51, 51, 55, 50, 48, 51, 54, 56, 53, 52, 55, 55, 53, 56, 48, 57>>,
    \* -18446744073709551615
      <<45, 49, 56, 52, 52, 54, 55, 52, 52, 48, 55, 51, 55, 48, 57, 53, 53, 49, 54, 49, 53>>,
    \* -18446744073709551616
      <<45, 49, 56, 52, 52, 54, 55, 52, 52, 48, 55, 51, 55, 48, 57, 53, 53, 49, 54, 49, 54>>,
    \* 1.5
      <<49, 46, 53>>,
    \* -0.0
      <<45, 48, 46, 48>>,
    \* 0.0
      <<48, 46, 48>>,
    \* 0e0
      <<48, 101, 48>>,
    \* 0.0e-400
      <<48, 46, 48, 101, 45, 52, 48, 48>>,
    \* 1e-400
      <<49, 101, 45, 52, 48, 48>>,
    \* 1e-310
      <<49, 101, 45, 51, 49, 48>>,
    \* 2.50
      <<50, 46, 53, 48>>,
    \* 1e2
      <<49, 101, 50>>,
    \* 4E9
      <<52, 69, 57>>,
    \* 0.0001E4
      <<48, 46, 48, 48, 48, 49, 69, 52>>,
    \* 5.000000001E9
      <<53, 46, 48, 48, 48, 48, 48, 48, 48, 48, 49, 69, 57>>,
    \* 922337203685477580.7E1
      <<57, 50, 50, 51, 51, 55, 50, 48, 51, 54, 56, 53, 52, 55, 55, 53, 56, 48, 46, 55, 69, 49>>,
    \* 1844674407370955161.5E1
      <<49, 56, 52, 52, 54, 55, 52, 52, 48, 55, 51, 55, 48, 57, 53, 53, 49, 54, 49, 46, 53, 69, 49>>,
    \* -922337203685477580.8E1
      <<45, 57, 50, 50, 51, 51, 55, 50, 48, 51, 54, 56, 53, 52, 55, 55, 53, 56, 48, 46, 56, 69, 49>>,
    \* 1e-2
      <<49, 101, 45, 50>>,
    \* 1E400
      <<49, 69, 52, 48, 48>>,
    \* 1.
      <<49, 46>>,
    \* 1e
      <<49, 101>>,
    \* -
      <<45>>,
    \* true
      <<116, 114, 117, 101>>,
    \* false
      <<102, 97, 108, 115, 101>>,
    \* null
      <<110, 117, 108, 108>>,
    \* nul
      <<110, 117, 108>>,
    \*  \u0009\u000D\u000A[ 1 , 2 ]\u000A
      <<32, 9, 13, 10, 91, 32, 49, 32, 44, 32, 50, 32, 93, 10>>,
    \* [1,]
      <<91, 49, 44, 93>>,
    \* [1 2]
      <<91, 49, 32, 50, 93>>,
    \* {"a":1,"a":2}
      <<123, 34, 97, 34, 58, 49, 44, 34, 97, 34, 58, 50, 125>>,
    \* {"a":{"b":[true,null]},"c":"d"}
      <<123, 34, 97, 34, 58, 123, 34, 98, 34, 58, 91, 116, 114, 117, 101, 44, 110, 117, 108, 108, 93, 125, 44, 34, 99, 34, 58, 34, 100, 34, 125>>,
    \* {"a"}
      <<123, 34, 97, 34, 125>>,
    \* {"a":1,}
      <<123, 34, 97, 34, 58, 49, 44, 125>>,
    \* {1:2}
      <<123, 49, 58, 50, 125>>,
    \* "\u00e9\ud83d\ude00\n"
      <<34, 92, 117, 48, 48, 101, 57, 92, 117, 100, 56, 51, 100, 92, 117, 100, 101, 48, 48, 92, 110, 34>>,
    \* "\ud83d"
      <<34, 92, 117, 100, 56, 51, 100, 34>>,
    \* "a
      <<34, 97>>,
    \* "\q"
      <<34, 92, 113, 34>>,
    \* [] []
      <<91, 93, 32, 91, 93>>,
    \* the empty text
      <<>> }

\* a string literal of the given bytes, and \u before four hex digits
Quoted(body) == <<34>> \o body \o <<34>>
EscapeU(digits) == <<92, 117>> \o digits

\* \uD852\uDF62, which is U+24B62
PairEscaped == EscapeU(<<68, 56, 53, 50>>) \o EscapeU(<<68, 70, 54, 50>>)

\* string literals with \u escapes of surrogates
SurrogateTexts ==
    { Quoted(PairEscaped),
    \* "\uD800\uDC00" and "\udbff\udfff", the least and the greatest pair
      Quoted(EscapeU(<<68, 56, 48, 48>>) \o EscapeU(<<68, 67, 48, 48>>)),
      Quoted(EscapeU(<<100, 98, 102, 102>>) \o EscapeU(<<100, 102, 102, 102>>)),
    \* "a\uD852\uDF62b"
      Quoted(<<97>> \o PairEscaped \o <<98>>),
    \* "\u0041\u00e9\u20AC\uFFFF", no surrogate
      Quoted(EscapeU(<<48, 48, 52, 49>>) \o EscapeU(<<48, 48, 101, 57>>)
                 \o EscapeU(<<50, 48, 65, 67>>) \o EscapeU(<<70, 70, 70, 70>>)),
    \* "\uDC00" and "a\uDF62": a low surrogate first
      Quoted(EscapeU(<<68, 67, 48, 48>>)),
      Quoted(<<97>> \o EscapeU(<<68, 70, 54, 50>>)),
    \* a pair and a low surrogate after it
      Quoted(PairEscaped \o EscapeU(<<68, 70, 54, 50>>)),
    \* "\uD852" before the quote, a, a space, \u0041, \uD852, \n, \UDF62, \uDF6
      Quoted(EscapeU(<<68, 56, 53, 50>>)),
      Quoted(EscapeU(<<68, 56, 53, 50>>) \o <<97>>),
      Quoted(EscapeU(<<68, 56, 53, 50>>) \o <<32>> \o EscapeU(<<68, 70, 54, 50>>)),
      Quoted(EscapeU(<<68, 56, 53, 50>>) \o EscapeU(<<48, 48, 52, 49>>)),
      Quoted(EscapeU(<<68, 56, 53, 50>>) \o EscapeU(<<68, 56, 53, 50>>)),
      Quoted(EscapeU(<<68, 56, 53, 50>>) \o <<92, 110>>),
      Quoted(EscapeU(<<68, 56, 53, 50>>) \o <<92, 85, 68, 70, 54, 50>>),
      Quoted(EscapeU(<<68, 56, 53, 50>>) \o EscapeU(<<68, 70, 54>>)),
    \* "\uD852\uDF62 cut before the closing quote
      <<34>> \o PairEscaped,
    \* {"\uD852\uDF62":1} and {"\uDF62":1}
      <<123>> \o Quoted(PairEscaped) \o <<58, 49, 125>>,
      <<123>> \o Quoted(EscapeU(<<68, 70, 54, 50>>)) \o <<58, 49, 125>> }

\* string literals and keys of bytes above 127
Utf8Texts ==
    \* U+00E9, U+20AC and U+1F600, well formed
    { Quoted(<<195, 169, 226, 130, 172, 240, 159, 152, 128>>),
    \* overlong: C0 80, C1 BF, E0 80 80, F0 80 80 80
      Quoted(<<192, 128>>),
      Quoted(<<193, 191>>),
      Quoted(<<224, 128, 128>>),
      Quoted(<<240, 128, 128, 128>>),
    \* a surrogate, ED A0 80, and F4 90 80 80, above U+10FFFF
      Quoted(<<237, 160, 128>>),
      Quoted(<<244, 144, 128, 128>>),
    \* a continuation byte with no lead byte
      Quoted(<<128>>),
      Quoted(<<97, 191>>),
    \* sequences cut short
      Quoted(<<195>>),
      Quoted(<<226, 130>>),
      Quoted(<<240, 159, 152>>),
      <<34, 195>>,
    \* lead bytes F8, FE and FF
      Quoted(<<248, 128, 128, 128, 128>>),
      Quoted(<<254, 128, 128, 128>>),
      Quoted(<<255>>),
    \* {"k":1} and ["s"] with C0 80 for k and for s, and {"k":1} with C3 for k
      <<123>> \o Quoted(<<192, 128>>) \o <<58, 49, 125>>,
      <<91>> \o Quoted(<<192, 128>>) \o <<93>>,
      <<123>> \o Quoted(<<195>>) \o <<58, 49, 125>> }

\* strings in which a backslash stands before a byte that names no escape:
\* "\q", "\0", "\Q", "\U0041", "\" and the byte 1, "\" and the byte 0,
\* "\" and the byte 233, ["a\ b"]
UnknownEscapeTexts ==
    { <<34, 92, 113, 34>>, <<34, 92, 48, 34>>, <<34, 92, 81, 34>>,
      <<34, 92, 85, 48, 48, 52, 49, 34>>, <<34, 92, 1, 34>>, <<34, 92, 0, 34>>,
      <<34, 92, 233, 34>>, <<91, 34, 97, 92, 32, 98, 34, 93>> }

\* buffers of which json_utf8_decode is given the first size bytes, for
\* every size
SliceBuffers ==
    \* ["a\n\u00e9\ud83d\ude00",-12.5e3,true]
    { <<91, 34, 97, 92, 110, 92, 117, 48, 48, 101, 57, 92, 117, 100, 56, 51, 100,
        92, 117, 100, 101, 48, 48, 34, 44, 45, 49, 50, 46, 53, 101, 51, 44,
        116, 114, 117, 101, 93>>,
    \* a string of the characters U+00E9, U+20AC, U+1F600 and then 1
      <<34, 195, 169, 226, 130, 172, 240, 159, 152, 128, 34, 49>>,
    \* {"k":null,"f":false}
      <<123, 34, 107, 34, 58, 110, 117, 108, 108, 44, 34, 102, 34, 58,
        102, 97, 108, 115, 101, 125>>,
    \* 12345 ]
      <<49, 50, 51, 52, 53, 32, 93>>,
    \* "a", the byte 0, b", the byte 0, "
      <<34, 97, 0, 98, 34, 0, 34>>,
    \* [1, the byte 0, 2]
      <<91, 49, 44, 0, 50, 93>>,
    \* 7, the byte 0, 8
      <<55, 0, 56>> }

Jobs ==
    [kind : {"value"}, thing : JobValues, text : {<<>>}]
        \cup [kind : {"text"}, thing : {NULL},
              text : JobTexts \cup NestedTexts \cup SurrogateTexts \cup Utf8Texts
                         \cup UnknownEscapeTexts]
        \cup [kind : {"slice"}, thing : {NULL}, text : SliceBuffers]

Sizes == 0..MaxSize

InitCodec ==
    /\ which = [part |-> "codec", start |-> 0]
    /\ the_array = json_make_array
    /\ the_object = json_make_object
    /\ nextId = 0
    /\ ret = NULL
    /\ op = NoCall
    /\ gets = 0
    /\ job \in Jobs
    /\ enc = NoEncoding
    /\ dec = NoDecoding
    /\ trace_data = NoTrace
    /\ heap = NoHeap
    /\ traced = <<>>

\* json_utf8_encode(job.thing, buffer, size): the first call, or the call
\* that follows a call with size 0, with a buffer of the returned count + 1
Encode ==
    /\ job.kind = "value"
    /\ dec.pc = "idle"
    /\ enc.call = "none" \/ (enc.call = "json_utf8_encode" /\ enc.size = 0)
    /\ \E size \in IF enc.call = "none" THEN Sizes ELSE {enc.count + 1} :
       \E r \in {json_utf8_encode(job.thing, size)} :
           enc' = [call |-> "json_utf8_encode", size |-> size,
                   left_margin |-> 0, indentation |-> 0,
                   count |-> r.count, written |-> r.written]
    /\ UNCHANGED <<trace_data, heap, traced, which,
                   the_array, the_object, nextId, ret, op, gets, job, dec>>

\* json_utf8_prettyprint(job.thing, buffer, size, left_margin, indentation):
\* the first call, or the call that follows a call with size 0
Prettyprint ==
    /\ job.kind = "value"
    /\ dec.pc = "idle"
    /\ enc.call = "none" \/ (enc.call = "json_utf8_prettyprint" /\ enc.size = 0)
    /\ \E size \in IF enc.call = "none" THEN Sizes ELSE {enc.count + 1},
          left_margin \in IF enc.call = "none" THEN 0..MaxMargin
                          ELSE {enc.left_margin},
          indentation \in IF enc.call = "none" THEN 0..MaxIndentation
                          ELSE {enc.indentation} :
       \E r \in {json_utf8_prettyprint(job.thing, size, left_margin, indentation)} :
           enc' = [call |-> "json_utf8_prettyprint", size |-> size,
                   left_margin |-> left_margin, indentation |-> indentation,
                   count |-> r.count, written |-> r.written]
    /\ UNCHANGED <<trace_data, heap, traced, which,
                   the_array, the_object, nextId, ret, op, gets, job, dec>>

\* json_utf8_decode_string on a complete output of the encoder, up to its
\* call of decode
DecodeEncoded ==
    /\ enc.call # "none"
    /\ enc.count < enc.size
    /\ dec.pc = "idle"
    /\ dec' = json_utf8_decode_start(CStr(enc.written), Len(CStr(enc.written)))
    /\ UNCHANGED <<trace_data, heap, traced, which,
                   the_array, the_object, nextId, ret, op, gets, job, enc>>

\* json_utf8_decode(job.text, size) up to its call of decode
DecodeText ==
    /\ job.kind = "text"
    /\ dec.pc = "idle"
    /\ dec' = json_utf8_decode_start(job.text, Len(job.text))
    /\ UNCHANGED <<trace_data, heap, traced, which,
                   the_array, the_object, nextId, ret, op, gets, job, enc>>

\* json_utf8_decode(job.text, size) with a size of less than the buffer, up
\* to its call of decode
DecodeSlice ==
    /\ job.kind = "slice"
    /\ dec.pc = "idle"
    /\ \E size \in 0..(Len(job.text) - 1) :
          dec' = json_utf8_decode_start(job.text, size)
    /\ UNCHANGED <<trace_data, heap, traced, which,
                   the_array, the_object, nextId, ret, op, gets, job, enc>>

\* one call or one return of decode, or the assert of
\* json_adopt_bounded_string or json_make_float in either build
DecodeStep ==
    /\ dec.pc \in {"decode", "return", "assert"}
    /\ dec' \in {decode_step(dec)}
                  \cup IF dec.pc = "assert" THEN {assert_skipped(dec)} ELSE {}
    /\ UNCHANGED <<trace_data, heap, traced, which,
                   the_array, the_object, nextId, ret, op, gets, job, enc>>

\* json_thing_equal(job.thing, w, 0) for the thing w decoded from the output
\* of the encoder
RoundTrip ==
    /\ job.kind = "value"
    /\ dec.pc = "done"
    /\ dec.thing # NULL
    /\ op.name = "none"
    /\ \E r \in {json_thing_equal(job.thing, dec.thing, DoubleZero(FALSE))} :
          /\ ret' \in Returned(r)
          /\ dec' = [dec EXCEPT !.thing = r.b]
    /\ op' = [NoCall EXCEPT !.name = "json_thing_equal"]
    /\ UNCHANGED <<trace_data, heap, traced, which,
                   the_array, the_object, nextId, gets, job, enc>>

NextCodec ==
    Encode \/ Prettyprint \/ DecodeEncoded \/ DecodeText \/ DecodeSlice
        \/ DecodeStep \/ RoundTrip

SpecCodec == InitCodec /\ [][NextCodec]_vars

(***************************************************************************)
(* Properties of the encoder.                                              *)
(***************************************************************************)
\* the complete output of the encoder call recorded in enc: what the same
\* call stores in a buffer that holds all of it
Complete ==
    IF enc.call = "json_utf8_prettyprint"
    THEN json_utf8_prettyprint(job.thing, LargeBuffer, enc.left_margin,
                               enc.indentation)
    ELSE json_utf8_encode(job.thing, LargeBuffer)

\* the bytes of the complete encoding, without the NUL that ends it
Encoding(full) == Take(full.written, Len(full.written) - 1)

Min(a, b) == IF a < b THEN a ELSE b

\* C2: json_utf8_encode returns the length L of the complete encoding
\* whatever size is; a call with size 0 returns the strlen of what a buffer
\* of L + 1 bytes receives; the output is cut short exactly when the value
\* returned is >= size
SizeProbeLaw ==
    enc.call = "json_utf8_encode" =>
        \E full \in {Complete} :
            /\ full.count < LargeBuffer
            /\ enc.count = Len(Encoding(full))
            /\ (enc.count >= enc.size) <=> (enc.written # full.written)
            /\ enc.size = enc.count + 1 =>
                   Len(CStr(enc.written)) = json_utf8_encode(job.thing, 0).count

\* C2 witness: after a call with size 0, a buffer of the returned count + 1
\* bytes, larger than any first buffer tried, has received the encoding of
\* an array
ProbedThenEncoded ==
    /\ enc.call = "json_utf8_encode"
    /\ job.thing.type = "JSON_ARRAY"
    /\ enc.size = enc.count + 1
    /\ enc.size > MaxSize
    /\ Len(enc.written) = enc.size

\* C3: with size > 0 json_utf8_encode and json_utf8_prettyprint store the
\* first min(size - 1, L) bytes of the complete encoding and one NUL after
\* them, and nothing at an offset >= size; with size 0 they store nothing
BoundedWrite ==
    enc.call # "none" =>
        \E full \in {Complete} :
            /\ full.count < LargeBuffer
            /\ Len(enc.written) <= enc.size
            /\ enc.written =
                   IF enc.size = 0 THEN <<>>
                   ELSE Append(Take(Encoding(full),
                                    Min(enc.size - 1, Len(Encoding(full)))), 0)

\* C3 witness: json_utf8_prettyprint has filled a buffer smaller than the
\* pretty-printed object it was given
PrettyprintCutShort ==
    /\ enc.call = "json_utf8_prettyprint"
    /\ job.thing.type = "JSON_OBJECT"
    /\ enc.size > 1
    /\ enc.count >= enc.size
    /\ Len(enc.written) = enc.size

(***************************************************************************)
(* The round trip.                                                         *)
(***************************************************************************)
\* v holds no Float and no Raw
RECURSIVE NoFloatOrRaw(_)
NoFloatOrRaw(v) ==
    CASE v.type = "JSON_ARRAY" ->
             \A i \in 1..Len(v.elements) : NoFloatOrRaw(v.elements[i])
      [] v.type = "JSON_OBJECT" ->
             \A i \in 1..Len(v.fields) : NoFloatOrRaw(v.fields[i].value)
      [] OTHER -> v.type \notin {"JSON_FLOAT", "JSON_RAW"}

\* in every object of v the keys are pairwise distinct and well-formed UTF-8
RECURSIVE KeysDistinctAndWellFormed(_)
KeysDistinctAndWellFormed(v) ==
    CASE v.type = "JSON_ARRAY" ->
             \A i \in 1..Len(v.elements) :
                 KeysDistinctAndWellFormed(v.elements[i])
      [] v.type = "JSON_OBJECT" ->
             /\ \A i, j \in 1..Len(v.fields) :
                    i # j => ~strcmp_equal(v.fields[i].name, v.fields[j].name)
             /\ \A i \in 1..Len(v.fields) :
                    /\ WellFormedFrom(v.fields[i].name, 1)
                    /\ KeysDistinctAndWellFormed(v.fields[i].value)
      [] OTHER -> TRUE

\* every node of v has fewer than levels containers around it
RECURSIVE NestingWithin(_, _)
NestingWithin(v, levels) ==
    /\ levels > 0
    /\ CASE v.type = "JSON_ARRAY" ->
                \A i \in 1..Len(v.elements) :
                    NestingWithin(v.elements[i], levels - 1)
         [] v.type = "JSON_OBJECT" ->
                \A i \in 1..Len(v.fields) :
                    NestingWithin(v.fields[i].value, levels - 1)
         [] OTHER -> TRUE

\* json_utf8_decode of the complete output of json_utf8_encode(job.thing)
\* has returned a thing, and json_thing_equal has found it equal
RoundTripHolds ==
    /\ dec.pc = "done" => dec.thing # NULL
    /\ op.name = "json_thing_equal" => ret.truth

\* C1 as stated: the round trip holds of every value without Float and Raw
RoundTripOfAll ==
    (job.kind = "value" /\ enc.call = "json_utf8_encode"
         /\ NoFloatOrRaw(job.thing)) => RoundTripHolds

\* C1: the round trip holds of every value without Float and Raw in whose
\* objects the keys are pairwise distinct and well-formed UTF-8, and whose
\* nodes have fewer than MAX_DECODE_NESTING_LEVELS containers around them
RoundTripOfDistinctKeys ==
    (job.kind = "value" /\ enc.call = "json_utf8_encode"
         /\ NoFloatOrRaw(job.thing)
         /\ KeysDistinctAndWellFormed(job.thing)
         /\ NestingWithin(job.thing, MAX_DECODE_NESTING_LEVELS)) =>
        RoundTripHolds

\* C1 witness: the object holding a nested object, LLONG_MIN under a key
\* with escapes and a string under the empty key has come back equal
RoundTripOfObject ==
    /\ op.name = "json_thing_equal"
    /\ enc.call = "json_utf8_encode"
    /\ job.thing.type = "JSON_OBJECT"
    /\ Len(job.thing.fields) = 3
    /\ job.thing.fields[2].value = json_make_integer(LLONG_MIN)
    /\ ret.truth

(***************************************************************************)
(* Properties of the decoder: numbers.                                     *)
(***************************************************************************)
DigitsOnly(text) == text # <<>> /\ \A i \in 1..Len(text) : IsDigit(text[i])

\* the Integer or Unsigned holding the natural m <= 2^64 - 1
NaturalThing(m) ==
    IF BigCmp(m, LLONG_MAX) <= 0 THEN json_make_integer(ToWord(m))
    ELSE json_make_unsigned(ToWord(m))

\* C7 as stated: a text of decimal digits only, of value m, decodes to
\* Integer(m) when m <= 2^63 - 1, to Unsigned(m) when m <= 2^64 - 1 and to a
\* Float above
UnsignedClassification ==
    (job.kind = "text" /\ dec.pc = "done" /\ DigitsOnly(job.text)) =>
        \E m \in {BigNorm(BigFromDecimal(<<>>, job.text))} :
            /\ dec.thing # NULL
            /\ IF BigCmp(m, ULLONG_MAX) <= 0 THEN dec.thing = NaturalThing(m)
               ELSE dec.thing.type = "JSON_FLOAT"

\* C8 as stated: '-' and decimal digits of magnitude m decode to
\* Integer(-m) when m <= 2^63, and to a Float only when m > 2^63
NegativeClassification ==
    (job.kind = "text" /\ dec.pc = "done" /\ job.text # <<>>
         /\ job.text[1] = 45 /\ DigitsOnly(Tail(job.text))) =>
        \E m \in {BigNorm(BigFromDecimal(<<>>, Tail(job.text)))} :
            /\ dec.thing # NULL
            /\ IF BigCmp(m, LLONG_MIN) <= 0
               THEN dec.thing = json_make_integer(WordNeg(ToWord(m)))
               ELSE dec.thing.type = "JSON_FLOAT"

\* text is made of the characters of a number and has a fraction or an
\* exponent
FractionOrExponent(text) ==
    /\ \A i \in 1..Len(text) :
           IsDigit(text[i]) \/ text[i] \in {43, 45, 46, 69, 101}
    /\ \E i \in 1..Len(text) : text[i] \in {46, 69, 101}

\* the number a text of the JSON number grammar writes: whether it is
\* negative, whether it is an integer of 64 bits at most, and its magnitude
\* then.  The number is digits * 10^k, digits being the digits before and
\* after the point, and k the exponent less the number of digits after it
Written(text) ==
    LET neg == text[1] = 45
        body == IF neg THEN Tail(text) ELSE text
        epos == IndexOf(body, {69, 101})
        dpos == IndexOf(SubSeq(body, 1, epos - 1), {46})
        fracpart == SubSeq(body, dpos + 1, epos - 1)
        digits == SubSeq(body, 1, dpos - 1) \o fracpart
        exppart == SubSeq(body, epos + 1, Len(body))
        expdigits == IF exppart # <<>> /\ exppart[1] \in {43, 45}
                     THEN Tail(exppart) ELSE exppart
        e10 == IF Len(expdigits) > 3 THEN 1000
               ELSE SmallFromDecimal(0, expdigits)
        k == (IF exppart # <<>> /\ exppart[1] = 45 THEN -e10 ELSE e10)
                 - Len(fracpart)
        zero == \A i \in 1..Len(digits) : digits[i] = 48
        cut == IF -k > Len(digits) THEN Len(digits) ELSE -k
    IN IF zero THEN [neg |-> neg, whole |-> TRUE, m |-> <<>>]
       ELSE IF k >= 0
       THEN IF k + Len(digits) > 25
            THEN [neg |-> neg, whole |-> FALSE, m |-> <<>>]
            ELSE [neg |-> neg, whole |-> TRUE,
                  m |-> BigNorm(BigMulPow10(
                            BigNorm(BigFromDecimal(<<>>, digits)), k))]
       ELSE [neg |-> neg,
             whole |-> \A i \in (Len(digits) - cut + 1)..Len(digits) :
                           digits[i] = 48,
             m |-> BigNorm(BigFromDecimal(
                       <<>>, SubSeq(digits, 1, Len(digits) - cut)))]

\* C9 as stated: a number text with a fraction or an exponent whose value is
\* an integer of [LLONG_MIN, ULLONG_MAX] decodes to the Integer or Unsigned
\* holding that integer
IntegerReclassification ==
    (job.kind = "text" /\ dec.pc = "done" /\ dec.thing # NULL
         /\ FractionOrExponent(job.text)) =>
        \E x \in {Written(job.text)} :
            /\ (x.whole /\ x.neg /\ BigCmp(x.m, LLONG_MIN) <= 0) =>
                   dec.thing = json_make_integer(WordNeg(ToWord(x.m)))
            /\ (x.whole /\ ~x.neg /\ BigCmp(x.m, ULLONG_MAX) <= 0) =>
                   dec.thing = NaturalThing(x.m)

(***************************************************************************)
(* Properties of the decoder: nesting.                                     *)
(***************************************************************************)
\* the containers open around text[i], in a text without strings
Depth(text, i) ==
    Cardinality({j \in 1..(i - 1) : text[j] \in {91, 123}})
        - Cardinality({j \in 1..(i - 1) : text[j] \in {93, 125}})

\* a '[' or '{' of text opens inside MAX_DECODE_NESTING_LEVELS containers
OpensTooDeep(text) ==
    /\ \A i \in 1..Len(text) : text[i] # 34
    /\ \E i \in 1..Len(text) :
           /\ text[i] \in {91, 123}
           /\ Depth(text, i) >= MAX_DECODE_NESTING_LEVELS

\* C10: the nesting counter is MAX_DECODE_NESTING_LEVELS less the number
\* of containers entered, every container having been entered with the
\* counter one below that of the container around it, and is never below
\* zero; json_utf8_decode returns no value for a text in which a '[' or a
\* '{' opens inside MAX_DECODE_NESTING_LEVELS containers
NestingLimit ==
    /\ dec.levels >= 0
    /\ dec.levels = MAX_DECODE_NESTING_LEVELS - Len(dec.stack)
    /\ \A i \in 1..Len(dec.stack) :
           dec.stack[i].levels = MAX_DECODE_NESTING_LEVELS - (i - 1)
    /\ (job.kind = "text" /\ dec.pc = "done" /\ OpensTooDeep(job.text)) =>
           dec.thing = NULL

\* C10 witness: decode, called inside MAX_DECODE_NESTING_LEVELS arrays with
\* the counter at zero, has refused
RefusedAtZero ==
    /\ job.kind = "text"
    /\ OpensTooDeep(job.text)
    /\ dec.pc = "return"
    /\ Len(dec.stack) = MAX_DECODE_NESTING_LEVELS
    /\ dec.levels = 0
    /\ dec.p = NullPtr

(***************************************************************************)
(* Properties of the decoder: strings.                                     *)
(***************************************************************************)
HexValue(c) ==
    IF c \in 48..57 THEN c - 48
    ELSE IF c \in 65..70 THEN c - 55
    ELSE IF c \in 97..102 THEN c - 87
    ELSE -1

\* the number written by \uXXXX at text[i], -1 when no such escape is there
EscapeAt(text, i) ==
    IF /\ i + 5 <= Len(text)
       /\ text[i] = 92
       /\ text[i + 1] = 117
       /\ \A k \in 2..5 : HexValue(text[i + k]) >= 0
    THEN 4096 * HexValue(text[i + 2]) + 256 * HexValue(text[i + 3])
             + 16 * HexValue(text[i + 4]) + HexValue(text[i + 5])
    ELSE -1

\* the UTF-8 encoding of a code point
Utf8Of(cp) ==
    IF cp < 128 THEN <<cp>>
    ELSE IF cp < 2048 THEN <<192 + cp \div 64, 128 + (cp % 64)>>
    ELSE IF cp < 65536
    THEN <<224 + cp \div 4096, 128 + ((cp \div 64) % 64), 128 + (cp % 64)>>
    ELSE <<240 + cp \div 262144, 128 + ((cp \div 4096) % 64),
           128 + ((cp \div 64) % 64), 128 + (cp % 64)>>

\* in place of the bytes of a string: it has a surrogate out of place; it
\* has something other than printable ASCII and \u escapes
Misplaced == <<-1>>
Other == <<-2>>

\* the bytes that the string literal ending text, from text[i] on, stands
\* for when it is made of printable ASCII and \u escapes
RECURSIVE Unescaped(_, _)
Unescaped(text, i) ==
    LET then(bytes, j) ==
            LET rest == Unescaped(text, j)
            IN IF rest \in {Misplaced, Other} THEN rest ELSE bytes \o rest
        u == EscapeAt(text, i)
        low == EscapeAt(text, i + 6)
    IN IF i > Len(text) THEN Other
       ELSE IF text[i] = 34 THEN IF i = Len(text) THEN <<>> ELSE Other
       ELSE IF text[i] # 92
       THEN IF text[i] >= 32 /\ text[i] < 127 THEN then(<<text[i]>>, i + 1)
            ELSE Other
       ELSE IF u < 0 THEN Other
       ELSE IF u \in 56320..57343 THEN Misplaced
       ELSE IF u \in 55296..56319
       THEN IF low \in 56320..57343
            THEN then(Utf8Of(65536 + (u - 55296) * 1024 + (low - 56320)), i + 12)
            ELSE Misplaced
       ELSE then(Utf8Of(u), i + 6)

\* C13: of a string literal of printable ASCII and \u escapes,
\* json_utf8_decode returns the String in which every \u escape in
\* D800..DBFF with the \u escape in DC00..DFFF right after it has become the
\* four bytes of UTF-8 of 0x10000 + ((high - 0xD800) << 10 | (low - 0xDC00)),
\* and returns no value when the literal has a \u escape in DC00..DFFF that
\* is not the second of a pair, or one in D800..DBFF with no \u escape in
\* DC00..DFFF right after it
SurrogatePairs ==
    (job.kind = "text" /\ job.text # <<>> /\ job.text[1] = 34) =>
        \E bytes \in {Unescaped(job.text, 2)} :
            \/ bytes = Other
            \/ /\ bytes # Other
               /\ dec.pc \notin {"assert", "abort"}
               /\ dec.pc = "done" =>
                      dec.thing = IF bytes = Misplaced THEN NULL
                                  ELSE json_adopt_bounded_string(bytes, Len(bytes))

\* C13 witness: "𤭢" has decoded to the String F0 A4 AD A2
PairDecoded ==
    /\ job.kind = "text"
    /\ job.text = Quoted(PairEscaped)
    /\ dec.pc = "done"
    /\ dec.thing = json_adopt_bounded_string(<<240, 164, 173, 162>>, 4)

\* C14: json_utf8_decode returns no value for a text that has an ill-formed
\* UTF-8 sequence in a string or in a key
Utf8Validation ==
    (job.kind = "text" /\ job.text \in Utf8Texts
         /\ ~WellFormedFrom(job.text, 1)) =>
        /\ dec.pc \notin {"assert", "abort"}
        /\ dec.pc = "done" => dec.thing = NULL

(***************************************************************************)
(* Calls on values at hand.  A behaviour makes one call of the library on  *)
(* arguments chosen at its start; job holds the arguments as the call      *)
(* leaves them, ret what it returned.                                      *)
(***************************************************************************)
KeyC == <<99>>

\* 0.001
Tolerance == DecimalToDouble(<<48, 46, 48, 48, 49>>)

\* [1, 2] and texts that are not JSON: [1, and x
RawArray == json_make_raw(<<91, 49, 44, 32, 50, 93>>)
RawCutShort == json_make_raw(<<91, 49, 44>>)
RawWord == json_make_raw(<<120>>)

EqualValues ==
    { NewValue(1),
      json_make_string(KeyA),
      json_make_float(DecimalToDouble(<<48, 46, 49>>)),
      ArrayOf(json_make_array, <<NewValue(1), NewValue(2)>>),
      RawArray, RawCutShort, RawWord,
      ArrayOf(json_make_array, <<NewValue(1), RawCutShort>>),
      ArrayOf(json_make_array, <<NewValue(3), RawCutShort>>),
      ObjectOf(json_make_object, <<<<KeyA, RawWord>>>>),
      ObjectOf(json_make_object, <<<<KeyA, RawArray>>>>),
      json_make_object,
      ObjectOf(json_make_object, <<<<KeyA, NewValue(1)>>>>),
      ObjectOf(json_make_object, <<<<KeyA, NewValue(1)>>, <<KeyB, NewValue(2)>>>>),
      ObjectOf(json_make_object, <<<<KeyB, NewValue(2)>>, <<KeyA, NewValue(1)>>>>),
      ObjectOf(json_make_object, <<<<KeyB, NewValue(1)>>, <<KeyA, NewValue(2)>>>>),
      ObjectOf(json_make_object, <<<<KeyA, NewValue(1)>>, <<KeyC, NewValue(2)>>>>),
      ObjectOf(json_make_object,
               <<<<KeyA, NewValue(1)>>, <<KeyB, NewValue(2)>>, <<KeyC, NewValue(3)>>>>),
      ObjectOf(json_make_object, <<<<KeyA, NewValue(1)>>, <<KeyA, NewValue(2)>>>>),
      ObjectOf(json_make_object, <<<<KeyA, NewValue(1)>>, <<KeyA, NewValue(1)>>>>),
      ObjectOf(json_make_object,
               <<<<KeyA, json_make_float(DecimalToDouble(<<48, 46, 49>>))>>,
                 <<KeyB, ObjectOf(json_make_object,
                                  <<<<KeyA, NewValue(1)>>, <<KeyB, json_make_null>>>>)>>>>),
      \* 0.10000002 under a
      ObjectOf(json_make_object,
               <<<<KeyB, ObjectOf(json_make_object,
                                  <<<<KeyB, json_make_null>>, <<KeyA, json_make_unsigned(Word(1))>>>>)>>,
                 <<KeyA, json_make_float(DecimalToDouble(
                             <<48, 46, 49, 48, 48, 48, 48, 48, 48, 50>>))>>>>) }

\* the things cast: of every kind, and the numbers about the ends of the
\* ranges of long long and unsigned long long
CastValues ==
    ScalarValues
        \cup { json_make_unsigned(Word(0)), json_make_unsigned(LLONG_MAX),
               json_make_unsigned(WordNeg(Word(1))),
               json_make_string(KeyA), json_make_array, json_make_object,
               RawArray,
               ObjectOf(json_make_object, <<<<KeyA, NewValue(1)>>>>),
               \* 1.5, 3, -3, 2^63, -2^63 and 2^64
               json_make_float(MakeDouble(FALSE, <<3>>, -1)),
               json_make_float(MakeDouble(FALSE, <<3>>, 0)),
               json_make_float(MakeDouble(TRUE, <<3>>, 0)),
               json_make_float(MakeDouble(FALSE, <<1>>, 63)),
               json_make_float(MakeDouble(TRUE, <<1>>, 63)),
               json_make_float(MakeDouble(FALSE, <<1>>, 64)) }

KeyD == <<100>>
KeyE == <<101>>

\* {"a":{"b":{"c":{"d":7}}}}, {"a":[{"b":1}],"b":{"a":null}}, an object of
\* JIT_SIZE_LIMIT fields under a, things that are no object, and no thing
DugThings ==
    { ObjectOf(json_make_object,
        <<<<KeyA, ObjectOf(json_make_object,
            <<<<KeyB, ObjectOf(json_make_object,
                <<<<KeyC, ObjectOf(json_make_object,
                                   <<<<KeyD, NewValue(7)>>>>)>>>>)>>>>)>>>>),
      ObjectOf(json_make_object,
        <<<<KeyA, ArrayOf(json_make_array,
                          <<ObjectOf(json_make_object, <<<<KeyB, NewValue(1)>>>>)>>)>>,
          <<KeyB, ObjectOf(json_make_object, <<<<KeyA, json_make_null>>>>)>>>>),
      ObjectOf(json_make_object,
        <<<<KeyA, BuildObject(json_make_object, JIT_SIZE_LIMIT)>>>>),
      json_make_object,
      NewValue(7),
      json_make_array,
      NULL }

\* the keys given: each of these and what each starts with
KeyPaths ==
    { Take(keys, n) :
        keys \in { <<KeyA, KeyB, KeyC, KeyD, KeyE>>, <<KeyA, KeyB, KeyC, KeyE>>,
                   <<KeyB, KeyA, KeyA>>, <<KeyA, KeyOf(0)>>,
                   <<KeyA, AbsentKey>> },
        n \in 0..5 }

\* the bytes of the files read: none; 1; [1, 2]; x; {; "\uD852"; [1,1,..,1]
\* of 2 * BufSize + 3 bytes; BufSize and 2 * BufSize + 1 times x
FileBytes ==
    { <<>>, <<49>>, <<91, 49, 44, 32, 50, 93>>, <<120>>, <<123>>,
      Quoted(EscapeU(<<68, 56, 53, 50>>)),
      <<91>> \o [i \in 1..(2 * BufSize) |-> IF i % 2 = 1 THEN 49 ELSE 44]
             \o <<49, 93>>,
      [i \in 1..BufSize |-> 120],
      [i \in 1..(2 * BufSize + 1) |-> 120] }

\* (size_t) -1 stands for no limit; a limit above every file here does too
NoLimit == 2^30

\* a file, read without error, with a limit about its size; or the file
\* with a read error after some of its bytes; errno is "0" before the call
FileJobs ==
    { [kind |-> "json_utf8_decode_file",
       f |-> [bytes |-> bytes, good |-> -1], max_size |-> max_size, errno |-> "0"] :
          bytes \in FileBytes,
          max_size \in {0, 1, 5, 6, 7, 12, BufSize, 2 * BufSize, 2 * BufSize + 1,
                        2 * BufSize + 2, 2 * BufSize + 3, 2 * BufSize + 4,
                        4 * BufSize + 5, 4 * BufSize + 6, NoLimit} }
        \cup { [kind |-> "json_utf8_decode_file",
                f |-> [bytes |-> bytes, good |-> good], max_size |-> NoLimit,
                errno |-> "0"] :
                   bytes \in FileBytes, good \in {0, 3, BufSize} }

CallJobs ==
    FileJobs
        \cup [kind : {"json_object_dig"}, thing : DugThings, keys : KeyPaths]
        \cup [kind : {"json_object_fetch"}, thing : DugThings,
              keys : KeyPaths \ {<<>>}]
        \cup [kind : {"json_thing_equal"}, a : EqualValues, b : EqualValues,
     tolerance : {DoubleZero(FALSE), Tolerance}]
        \cup [kind : {"json_cast_to_integer", "json_cast_to_unsigned"},
              thing : CastValues, n : {Unwritten}]

InitCalls ==
    /\ which = [part |-> "calls", start |-> 0]
    /\ the_array = json_make_array
    /\ the_object = json_make_object
    /\ nextId = 0
    /\ ret = NULL
    /\ op = NoCall
    /\ gets = 0
    /\ job \in CallJobs
    /\ enc = NoEncoding
    /\ dec = NoDecoding
    /\ trace_data = NoTrace
    /\ heap = NoHeap
    /\ traced = <<>>

\* json_thing_equal(job.a, job.b, job.tolerance)
ThingEqualCall ==
    /\ job.kind = "json_thing_equal"
    /\ op.name = "none"
    /\ \E r \in {json_thing_equal(job.a, job.b, job.tolerance)} :
          /\ ret' \in Returned(r)
          /\ job' = [job EXCEPT !.b = r.b]
    /\ op' = [NoCall EXCEPT !.name = "json_thing_equal"]
    /\ UNCHANGED <<trace_data, heap, traced, which,
                   the_array, the_object, nextId, gets, enc, dec>>

\* json_cast_to_integer(job.thing, &n)
CastToInteger ==
    /\ job.kind = "json_cast_to_integer"
    /\ op.name = "none"
    /\ \E r \in {json_cast_to_integer(job.thing, job.n)} :
          /\ ret' = [type |-> "bool", truth |-> r.ret]
          /\ job' = [job EXCEPT !.n = r.n]
    /\ op' = [NoCall EXCEPT !.name = "json_cast_to_integer"]
    /\ UNCHANGED <<trace_data, heap, traced, which,
                   the_array, the_object, nextId, gets, enc, dec>>

\* json_cast_to_unsigned(job.thing, &n)
CastToUnsigned ==
    /\ job.kind = "json_cast_to_unsigned"
    /\ op.name = "none"
    /\ \E r \in {json_cast_to_unsigned(job.thing, job.n)} :
          /\ ret' = [type |-> "bool", truth |-> r.ret]
          /\ job' = [job EXCEPT !.n = r.n]
    /\ op' = [NoCall EXCEPT !.name = "json_cast_to_unsigned"]
    /\ UNCHANGED <<trace_data, heap, traced, which,
                   the_array, the_object, nextId, gets, enc, dec>>

\* json_object_dig(job.thing, job.keys, num_keys) with all of the keys
ObjectDig ==
    /\ job.kind = "json_object_dig"
    /\ op.name = "none"
    /\ \E r \in {json_object_dig(job.thing, job.keys, Len(job.keys))} :
          /\ ret' = r.ret
          /\ job' = [job EXCEPT !.thing = r.thing]
    /\ op' = [NoCall EXCEPT !.name = "json_object_dig"]
    /\ UNCHANGED <<trace_data, heap, traced, which,
                   the_array, the_object, nextId, gets, enc, dec>>

\* json_object_fetch(job.thing, k1, .., kn) for the keys of job.keys
ObjectFetch ==
    /\ job.kind = "json_object_fetch"
    /\ op.name = "none"
    /\ \E r \in {json_object_fetch(job.thing, job.keys)} :
          /\ ret' = r.ret
          /\ job' = [job EXCEPT !.thing = r.thing]
    /\ op' = [NoCall EXCEPT !.name = "json_object_fetch"]
    /\ UNCHANGED <<trace_data, heap, traced, which,
                   the_array, the_object, nextId, gets, enc, dec>>

\* json_utf8_decode_file(job.f, job.max_size)
DecodeFile ==
    /\ job.kind = "json_utf8_decode_file"
    /\ op.name = "none"
    /\ \E r \in {json_utf8_decode_file(job.f, job.max_size, job.errno)} :
          /\ ret' = r.ret
          /\ job' = [job EXCEPT !.errno = r.errno]
    /\ op' = [NoCall EXCEPT !.name = "json_utf8_decode_file"]
    /\ UNCHANGED <<trace_data, heap, traced, which,
                   the_array, the_object, nextId, gets, enc, dec>>

NextCalls ==
    ThingEqualCall \/ CastToInteger \/ CastToUnsigned \/ ObjectDig
        \/ ObjectFetch \/ DecodeFile

SpecCalls == InitCalls /\ [][NextCalls]_vars

(***************************************************************************)
(* Properties of json_thing_equal.                                         *)
(***************************************************************************)
\* v is a Raw whose bytes json_utf8_decode_string does not decode
IllFormedRaw(v) == v.type = "JSON_RAW" /\ json_utf8_decode_string(v.repr) = NULL

\* the comparison of a with b comes to a Raw that is ill-formed: a or b is
\* one, or they are arrays of one size, or objects of one size with the key
\* of the first field of a in both, and the comparison of their first
\* elements, or of the values under that key, comes to one
RECURSIVE ReachesIllFormedRaw(_, _)
ReachesIllFormedRaw(a, b) ==
    \/ IllFormedRaw(a)
    \/ IllFormedRaw(b)
    \/ /\ a.type = "JSON_ARRAY" /\ b.type = "JSON_ARRAY"
       /\ Len(a.elements) = Len(b.elements) /\ Len(a.elements) > 0
       /\ ReachesIllFormedRaw(a.elements[1], b.elements[1])
    \/ /\ a.type = "JSON_OBJECT" /\ b.type = "JSON_OBJECT"
       /\ Len(a.fields) = Len(b.fields) /\ Len(a.fields) > 0
       /\ Stored(b, a.fields[1].name) # NULL
       /\ ReachesIllFormedRaw(a.fields[1].value, Stored(b, a.fields[1].name))

\* C11: json_thing_equal returns false, and does return, when the
\* comparison comes to a Raw whose bytes do not parse as JSON
EqualityWithIllFormedRaw ==
    (job.kind = "json_thing_equal" /\ op.name = "json_thing_equal"
         /\ ReachesIllFormedRaw(job.a, job.b)) =>
        ret = [type |-> "bool", truth |-> FALSE]

\* a and b have as many fields, and every field of a has a field in b of
\* the same key and of a value json_thing_equal finds equal
FieldsMatch(a, b, tolerance) ==
    /\ Len(a.fields) = Len(b.fields)
    /\ \A i \in 1..Len(a.fields) : \E j \in 1..Len(b.fields) :
           /\ strcmp_equal(a.fields[i].name, b.fields[j].name)
           /\ json_thing_equal(a.fields[i].value, b.fields[j].value,
                               job.tolerance).result

\* json_thing_equal has been called on two objects, and has read through no
\* NULL pointer
ObjectsCompared ==
    /\ job.kind = "json_thing_equal"
    /\ op.name = "json_thing_equal"
    /\ job.a.type = "JSON_OBJECT"
    /\ job.b.type = "JSON_OBJECT"
    /\ ~json_thing_equal(job.a, job.b, job.tolerance).fault

CastIsExact(same, other, ok) ==
    \E v \in {CASE job.thing.type = "JSON_INTEGER" -> job.thing.integer
                [] job.thing.type = "JSON_UNSIGNED" -> job.thing.u_integer
                [] OTHER -> Unwritten} :
        /\ job.thing.type = same => ret.truth
        /\ job.thing.type = other => (ret.truth <=> ok)
        /\ job.thing.type \notin {same, other, "JSON_FLOAT"} => ~ret.truth
        /\ job.thing.type # "JSON_FLOAT" =>
               /\ ret.truth => job.n = v
               /\ (ret.truth /\ job.thing.type = other) => ~IsNegative(v)
               /\ ~ret.truth => job.n = Unwritten

\* C15: json_cast_to_integer returns true for every Integer, for an
\* Unsigned u exactly when u <= LLONG_MAX, and false for every thing that is
\* no number; json_cast_to_unsigned returns true for every Unsigned, for an
\* Integer i exactly when i >= 0, and false for every thing that is no
\* number; after true n is the integer that the thing holds, after false
\* nothing has been stored in n
IntegerCasts ==
    /\ op.name = "json_cast_to_integer" =>
           CastIsExact("JSON_INTEGER", "JSON_UNSIGNED",
                       job.thing.type = "JSON_UNSIGNED"
                           /\ ~WordLess(LLONG_MAX, job.thing.u_integer))
    /\ op.name = "json_cast_to_unsigned" =>
           CastIsExact("JSON_UNSIGNED", "JSON_INTEGER",
                       job.thing.type = "JSON_INTEGER"
                           /\ job.thing.integer[4] < 32768)

\* C15 witness: the cast of Unsigned 2^63 to long long has returned false
\* and stored nothing
LargeUnsignedNotCast ==
    /\ op.name = "json_cast_to_integer"
    /\ job.thing = json_make_unsigned(LLONG_MIN)
    /\ ~ret.truth
    /\ job.n = Unwritten

(***************************************************************************)
(* Properties of json_object_dig and json_object_fetch.                    *)
(***************************************************************************)
\* what the keys from the i-th on lead to from thing: thing when no key is
\* left, NULL when thing is no object, else what the keys after the i-th
\* lead to from the value that thing stores under the i-th
RECURSIVE Reached(_, _, _)
Reached(thing, keys, i) ==
    IF i > Len(keys) THEN thing
    ELSE IF thing = NULL \/ thing.type # "JSON_OBJECT" THEN NULL
    ELSE Reached(Stored(thing, keys[i]), keys, i + 1)

\* C16: json_object_dig and json_object_fetch return the value that
\* json_object_get with k1, then k2, .. then kn leads to, and NULL when a key
\* is missing or a value that is no object is reached while keys remain
NestedNavigation ==
    op.name \in {"json_object_dig", "json_object_fetch"} =>
        ret = Reached(job.thing, job.keys, 1)

\* C16 witness: json_object_fetch with a, b, c, d and e has come to the
\* Integer under d, which is no object, and has returned NULL
FetchedThroughInteger ==
    /\ op.name = "json_object_fetch"
    /\ job.keys = <<KeyA, KeyB, KeyC, KeyD, KeyE>>
    /\ Reached(job.thing, Take(job.keys, 4), 1) = NewValue(7)
    /\ ret = NULL

(***************************************************************************)
(* Properties of json_utf8_decode_file.                                    *)
(***************************************************************************)
\* C17: when no read error occurs json_utf8_decode_file returns NULL with
\* errno ENOMEM exactly when the file holds more than max_size bytes;
\* otherwise NULL with errno EINVAL when json_utf8_decode returns NULL for
\* the bytes of the file, as it does for no bytes, and otherwise what
\* json_utf8_decode returns for them
FileDecodeOutcomes ==
    (op.name = "json_utf8_decode_file" /\ job.f.good < 0) =>
        /\ (ret = NULL /\ job.errno = "ENOMEM") <=> Len(job.f.bytes) > job.max_size
        /\ Len(job.f.bytes) <= job.max_size =>
               \E thing \in {json_utf8_decode(job.f.bytes, Len(job.f.bytes))} :
                   /\ ret = thing
                   /\ (thing = NULL) <=> (job.errno = "EINVAL")
                   /\ job.f.bytes = <<>> => thing = NULL

\* C17 witness: a file of exactly max_size bytes, more than fread delivers
\* in two calls, has been decoded to an array
LargestFileDecoded ==
    /\ op.name = "json_utf8_decode_file"
    /\ Len(job.f.bytes) = job.max_size
    /\ job.max_size > 2 * BufSize
    /\ ret.type = "JSON_ARRAY"
    /\ Len(ret.elements) = BufSize + 1

(***************************************************************************)
(* Properties of json_utf8_prettyprint.  The removal of the white space    *)
(* that json_utf8_prettyprint adds is a scan of its output, byte by byte.  *)
(***************************************************************************)
\* the scan at byte c: outside string literals a newline and the spaces
\* after it are left out, and so is one space after a ':'
StripStep(st, c) ==
    CASE st.mode = "string" ->
             [out |-> Append(st.out, c),
              mode |-> IF c = 92 THEN "escape" ELSE IF c = 34 THEN "out" ELSE "string"]
      [] st.mode = "escape" -> [out |-> Append(st.out, c), mode |-> "string"]
      [] st.mode \in {"newline", "colon"} /\ c = 32 ->
             [st EXCEPT !.mode = IF st.mode = "colon" THEN "out" ELSE "newline"]
      [] OTHER ->
             IF c = 10 THEN [st EXCEPT !.mode = "newline"]
             ELSE [out |-> Append(st.out, c),
                   mode |-> IF c = 34 THEN "string" ELSE IF c = 58 THEN "colon" ELSE "out"]

\* the scan of text[lo..hi] from st
RECURSIVE StripRun(_, _, _, _)
StripRun(text, lo, hi, st) ==
    IF lo > hi THEN st
    ELSE IF lo = hi THEN StripStep(st, text[lo])
    ELSE Let(StripRun(text, lo, (lo + hi) \div 2, st), LAMBDA left :
         Strict(left, StripRun(text, ((lo + hi) \div 2) + 1, hi, left)))

Stripped(text) == StripRun(text, 1, Len(text), [out |-> <<>>, mode |-> "out"]).out

\* how many times byte a is followed at once by byte b
Adjacent(text, a, b) ==
    Cardinality({i \in 1..(Len(text) - 1) : text[i] = a /\ text[i + 1] = b})

\* repr is left as it is by the scan wherever it stands, and ends no scan
\* inside a string literal
Untouched(repr) ==
    Let(StripRun(repr, 1, Len(repr), [out |-> <<>>, mode |-> "newline"]), LAMBDA st :
        st.out = repr /\ st.mode \in {"out", "colon"})

RECURSIVE RawsUntouched(_)
RawsUntouched(thing) ==
    CASE thing.type = "JSON_RAW" -> Untouched(thing.repr)
      [] thing.type = "JSON_ARRAY" ->
             \A i \in 1..Len(thing.elements) : RawsUntouched(thing.elements[i])
      [] thing.type = "JSON_OBJECT" ->
             \A i \in 1..Len(thing.fields) : RawsUntouched(thing.fields[i].value)
      [] OTHER -> TRUE

\* the complete output of json_utf8_prettyprint is the output of
\* json_utf8_encode once the scan has removed the white space, and holds
\* [] and {} as often
StripsToCompact ==
    \E pretty \in {CStr(enc.written)},
       compact \in {Encoding(json_utf8_encode(job.thing, LargeBuffer))} :
        /\ Stripped(pretty) = compact
        /\ Adjacent(pretty, 91, 93) = Adjacent(compact, 91, 93)
        /\ Adjacent(pretty, 123, 125) = Adjacent(compact, 123, 125)

\* C18 as stated: for every value, left_margin and indentation the output of
\* json_utf8_prettyprint without each newline and the spaces after it and
\* without the space after the ':' of each key, outside string literals, is
\* the output of json_utf8_encode, and an empty array or object is printed
\* as [] or {}
PrettyprintOfAll ==
    (enc.call = "json_utf8_prettyprint" /\ enc.count < enc.size) => StripsToCompact

\* C18: the same for every value whose Raws hold, outside string literals,
\* no newline, no space at their start or after a ':', and no string
\* literal left open
PrettyprintIsEncodePlusWhitespace ==
    (enc.call = "json_utf8_prettyprint" /\ enc.count < enc.size
        /\ RawsUntouched(job.thing)) => StripsToCompact

\* C18 witness: an object that holds an empty array in an object has been
\* printed whole with a margin and an indentation
NestedObjectPrinted ==
    /\ enc.call = "json_utf8_prettyprint"
    /\ enc.count < enc.size
    /\ enc.left_margin = 1
    /\ enc.indentation = 2
    /\ job.thing.type = "JSON_OBJECT"
    /\ Len(job.thing.fields) = 3
    /\ job.thing.fields[1].value.type = "JSON_OBJECT"
    /\ Adjacent(CStr(enc.written), 91, 93) = 1
    /\ Len(CStr(enc.written)) > Len(Stripped(CStr(enc.written))) + 10

(***************************************************************************)
(* Properties of the lookup table of an array.                             *)
(***************************************************************************)
\* an array of JIT_SIZE_LIMIT elements or more on which json_array_get has
\* been called lookups times with an index in range, and json_add_to_array
\* not since
LookedUp(lookups) ==
    /\ which.part = "array"
    /\ which.start >= JIT_SIZE_LIMIT
    /\ which.index < which.start
    /\ which.lookups >= lookups
    /\ nextId = which.start

\* the lookup table is built and the call of json_array_get just made, if
\* any, has returned its slot
AnsweredFromTable ==
    /\ the_array.lookup_table # <<>>
    /\ (op.name = "json_array_get" /\ op.n < json_array_size(the_array)) =>
           ret = TableAt(the_array.lookup_table[1], op.n)

\* C19 as stated: after JIT_ACCESS_LIMIT calls of json_array_get in range on
\* an array of JIT_SIZE_LIMIT elements or more, with no json_add_to_array in
\* between, the lookup table is built and answers every later call
TableAfterLookups ==
    LookedUp(JIT_ACCESS_LIMIT) => AnsweredFromTable

\* C19: the same after calls of json_array_get whose indexes add up to
\* JIT_ACCESS_LIMIT or more
TableAfterIndexSum ==
    (LookedUp(0) /\ which.lookups * which.index >= JIT_ACCESS_LIMIT)
        => AnsweredFromTable

\* C19 witness: after JIT_ACCESS_LIMIT calls json_array_get(a, 1) a call
\* with another index has been answered
LaterGetAnswered ==
    /\ LookedUp(JIT_ACCESS_LIMIT)
    /\ which.index = 1
    /\ op.name = "json_array_get"
    /\ op.n = which.start - 1
    /\ ret = NewValue(op.n)
    /\ the_array.random_access_counter = JIT_ACCESS_LIMIT

(***************************************************************************)
(* Calls of json_trace, as fstrace makes them for the %I fields of a line. *)
(***************************************************************************)
\* the sizes handed to json_trace_max_size (src/unnamed/part_000)
TraceSizes == {2, 20}

\* [1,"a"] and {"a":{"a":[]},...}
TraceThings ==
    { ArrayOf(json_make_array, <<NewValue(1), json_make_string(KeyA)>>),
      ObjectOf(json_make_object,
               <<<<KeyA, ObjectOf(json_make_object, <<<<KeyA, json_make_array>>>>)>>,
                 <<KeyEscaped, json_make_integer(LLONG_MIN)>>,
                 <<<<>>, json_make_string(KeyB)>>>>) }

InitTrace ==
    /\ which = [part |-> "trace", start |-> 0]
    /\ the_array = json_make_array
    /\ the_object = json_make_object
    /\ nextId = 0
    /\ ret = NULL
    /\ op = NoCall
    /\ gets = 0
    /\ job \in [kind : {"json_trace"}, thing : TraceThings]
    /\ enc = NoEncoding
    /\ dec = NoDecoding
    /\ trace_data = NoTrace
    /\ heap = NoHeap
    /\ traced = <<>>

\* json_trace(job.thing); traced records the string returned: its block,
\* the slot that holds the block after the call, and its text
JsonTrace ==
    /\ trace_data.next_slot < MaxTraces
    /\ \E buf \in fsrealloc(heap, trace_data.slots[(trace_data.next_slot % TRACE_SLOTS) + 1]) :
       \E r \in {json_trace(job.thing, trace_data, heap, buf)} :
          /\ trace_data' = r.trace_data
          /\ heap' = r.heap
          /\ ret' = r.ret
          /\ traced' = Append(traced,
                              [buf |-> r.ret.at,
                               slot |-> CHOOSE k \in 1..TRACE_SLOTS :
                                            r.trace_data.slots[k] = r.ret.at,
                               text |-> CStr(r.heap[r.ret.at])])
    /\ op' = [NoCall EXCEPT !.name = "json_trace"]
    /\ UNCHANGED <<which, the_array, the_object, nextId, gets, job, enc, dec>>

\* json_trace_max_size(&size)
JsonTraceMaxSize ==
    /\ \E size \in TraceSizes :
          trace_data' = json_trace_max_size(trace_data, size)
    /\ ret' = StringAt(NullPtr)
    /\ op' = [NoCall EXCEPT !.name = "json_trace_max_size"]
    /\ UNCHANGED <<which, the_array, the_object, nextId, gets, job, enc, dec,
                   heap, traced>>

NextTrace == JsonTrace \/ JsonTraceMaxSize

SpecTrace == InitTrace /\ [][NextTrace]_vars

(***************************************************************************)
(* Properties of json_trace.                                               *)
(***************************************************************************)
\* the last TRACE_SLOTS strings returned
Recent == {i \in 1..Len(traced) : i > Len(traced) - TRACE_SLOTS}

MutationResetsCounter ==
    /\ op.name = "json_add_to_array" =>
           the_array.lookup_table = <<>> /\ the_array.random_access_counter = 0
    /\ op.name \in {"json_add_to_object", "json_object_pop"} =>
           the_object.lookup_table = <<>> /\ the_object.random_access_counter = 0

\* a step json_array_get(the_array, n) with n < size follows the policy:
\* with a lookup table the counter stays; without one and with
\* JIT_SIZE_LIMIT elements or more the counter grows by n and the table is
\* built exactly when the counter is then JIT_ACCESS_LIMIT or more; without
\* one and with fewer elements the counter stays and no table is built
ArrayPolicyStep ==
    (which.part = "array" /\ gets' = gets + 1
        /\ op'.n < list_size(the_array.elements)) =>
        IF the_array.lookup_table # <<>>
        THEN /\ the_array'.random_access_counter = the_array.random_access_counter
             /\ the_array'.lookup_table = the_array.lookup_table
        ELSE IF list_size(the_array.elements) >= JIT_SIZE_LIMIT
        THEN /\ the_array'.random_access_counter =
                    the_array.random_access_counter + op'.n
             /\ (the_array'.lookup_table # <<>>) <=>
                    (the_array.random_access_counter + op'.n >= JIT_ACCESS_LIMIT)
        ELSE /\ the_array'.random_access_counter = the_array.random_access_counter
             /\ the_array'.lookup_table = <<>>

\* C22: every call json_array_get(a, n) with n < size follows the policy of
\* ArrayPolicyStep
ArrayIndexingPolicy == [][ArrayPolicyStep]_vars

\* C22 witness: the second call json_array_get(a, 29) after 33 such calls
\* has brought the counter past JIT_ACCESS_LIMIT and built the table
TableBuiltByGet ==
    /\ which.part = "array"
    /\ which.lookups = StartGets
    /\ op.name = "json_array_get"
    /\ gets = 2
    /\ nextId = which.start
    /\ the_array.random_access_counter = (StartGets + 2) * (JIT_SIZE_LIMIT - 1)
    /\ the_array.random_access_counter >= JIT_ACCESS_LIMIT
    /\ the_array.lookup_table # <<>>

\* the fields that a walk of o for key visits: up to the first field named
\* key, or all of them
Visited(o, key) ==
    Let({i \in 1..Len(o.fields) : strcmp_equal(key, o.fields[i].name)}, LAMBDA named :
    IF named = {} THEN Len(o.fields)
    ELSE CHOOSE i \in named : \A j \in named : i <= j)

\* a step json_object_get(the_object, key) on an object without a hash
\* table follows the policy: with JIT_SIZE_LIMIT fields or more the counter
\* grows by one a field visited, and at the visit that brings it to
\* JIT_ACCESS_LIMIT the hash table is built and answers the lookup; with
\* fewer fields the counter stays and no table is built
ObjectPolicyStep ==
    (which.part = "object" /\ gets' = gets + 1 /\ the_object.lookup_table = <<>>) =>
        \E visited \in {Visited(the_object, op'.key)},
           counter \in {the_object.random_access_counter} :
            IF list_size(the_object.fields) < JIT_SIZE_LIMIT
            THEN /\ the_object'.random_access_counter = counter
                 /\ the_object'.lookup_table = <<>>
            ELSE IF counter + visited >= JIT_ACCESS_LIMIT
            THEN /\ the_object'.random_access_counter = JIT_ACCESS_LIMIT
                 /\ the_object'.lookup_table # <<>>
                 /\ ret' = hash_table_get(the_object'.lookup_table[1], op'.key)
            ELSE /\ the_object'.random_access_counter = counter + visited
                 /\ the_object'.lookup_table = <<>>

\* C23: every call json_object_get(o, k) on an object without a hash table
\* follows the policy of ObjectPolicyStep
ObjectIndexingPolicy == [][ObjectPolicyStep]_vars

\* C23 witness: a walk for a key held by the last field but one has been
\* counted to that field, no table built
WalkCountedToField ==
    /\ which.part = "object"
    /\ op.name = "json_object_get"
    /\ list_size(the_object.fields) > JIT_SIZE_LIMIT
    /\ the_object.lookup_table = <<>>
    /\ the_object.random_access_counter = JIT_SIZE_LIMIT
    /\ ret = NewValue(JIT_SIZE_LIMIT - 1)

(***************************************************************************)
(* Properties of objects that hold a key more than once.                   *)
(***************************************************************************)
\* the places of the fields of o named key
Named(o, key) == {i \in 1..Len(o.fields) : strcmp_equal(key, o.fields[i].name)}

\* the number n of the value json_make_integer(n) here
IdOf(value) == value.integer[1]

\* "name":id for each field from place i on, with the commas between, as
\* the fields stand in the list
RECURSIVE FieldsText(_, _)
FieldsText(fields, i) ==
    IF i > Len(fields) THEN <<>>
    ELSE <<34>> \o fields[i].name \o <<34, 58>>
             \o DecimalBytes(IdOf(fields[i].value))
             \o (IF i = Len(fields) THEN <<>> ELSE <<44>>)
             \o FieldsText(fields, i + 1)

\* C24: json_object_get for a key that two or more fields have returns the
\* value of the first of them added while the object has no hash table and
\* of the last of them added once it has one; the field list holds every
\* field in the order of the additions, and so does what the loop of
\* encode_object writes from the first field of that key on
DuplicateKeyTieBreak ==
    (op.name = "json_object_get" /\ Cardinality(Named(the_object, op.key)) >= 2) =>
        \E named \in {Named(the_object, op.key)} :
            /\ \E i \in named :
                  /\ ret = the_object.fields[i].value
                  /\ \A j \in named :
                        IF the_object.lookup_table = <<>> THEN i <= j ELSE i >= j
            /\ \A i, j \in 1..Len(the_object.fields) :
                  i < j => IdOf(the_object.fields[i].value)
                               < IdOf(the_object.fields[j].value)
            /\ \E first \in {i \in named : \A j \in named : i <= j} :
                  encode_object_loop(the_object.fields, first, <<>>,
                                     JIT_ACCESS_LIMIT, 0).q
                      = FieldsText(the_object.fields, first)

\* C24 witness: the hash table of an object of more than JIT_SIZE_LIMIT
\* fields has answered for a key that two fields have
LastDuplicateReturned ==
    /\ op.name = "json_object_get"
    /\ Cardinality(Named(the_object, op.key)) = 2
    /\ list_size(the_object.fields) > JIT_SIZE_LIMIT
    /\ the_object.lookup_table # <<>>
    /\ ret = the_object.fields[Len(the_object.fields)].value

(***************************************************************************)
(* Properties of the decoding of zero.                                     *)
(***************************************************************************)
\* number texts with a fraction or an exponent whose value is zero, or less
\* than the least normal double
ZeroFloatTexts ==
    { <<48, 46, 48>>, <<48, 101, 48>>, <<45, 48, 46, 48>>,
      <<48, 46, 48, 101, 45, 52, 48, 48>>, <<49, 101, 45, 52, 48, 48>>,
      <<49, 101, 45, 51, 49, 48>> }

\* C25: the assert of json_make_float fails on no input of the decoder, and
\* the decoding of a number text with a fraction or an exponent whose value
\* is zero or subnormal ends with the Float 0.0
ZeroFloatsDecode ==
    /\ dec.pc = "assert" => dec.thing.type # "JSON_FLOAT"
    /\ job.kind = "text" /\ job.text \in ZeroFloatTexts =>
           /\ dec.pc # "abort"
           /\ dec.pc = "done" =>
                  dec.thing.type = "JSON_FLOAT" /\ fpclassify(dec.thing.real) = "FP_ZERO"

(***************************************************************************)
(* Properties of the escapes of a string.                                  *)
(***************************************************************************)
\* C26: json_utf8_decode returns no value for a string in which a backslash
\* stands before a byte other than '"', '\', '/', 'b', 'f', 'n', 'r', 't'
\* and 'u'
EscapeSet ==
    job.kind = "text" /\ job.text \in UnknownEscapeTexts /\ dec.pc = "done" =>
        dec.thing = NULL

(***************************************************************************)
(* Properties of the decoder's progress.                                   *)
(***************************************************************************)
\* json_utf8_decode has been called and has not returned
Decoding == dec.pc \in {"decode", "return", "assert"}

\* the calls of decode that wait for a call they made
OpenCalls == Len(dec.stack)

\* a step of the decoder reads on: it leaves p further in the input, within
\* it, or fails; a failure, p = NULL, goes through one call of decode at
\* most and then back through the callers one by one; only the step that
\* passes an assert leaves p where it is
DecoderStep ==
    Decoding /\ dec' # dec =>
        \/ dec'.pc \in {"done", "abort"}
        \/ dec.pc = "assert" /\ dec'.pc = "return" /\ dec'.p = dec.p
               /\ dec'.stack = dec.stack
        \/ dec.pc # "assert" /\ dec.p # NullPtr /\ dec'.p = NullPtr
               /\ dec'.pc \in {"decode", "return"}
        \/ dec.pc = "decode" /\ dec.p = NullPtr /\ dec'.p = NullPtr
               /\ dec'.pc = "return" /\ dec'.stack = dec.stack
        \/ dec.pc # "assert" /\ dec.p # NullPtr /\ dec'.p > dec.p
               /\ dec'.p <= dec.end
        \/ dec.pc = "return" /\ dec.p = NullPtr /\ dec'.p = NullPtr
               /\ dec'.pc = "return" /\ Len(dec'.stack) = OpenCalls - 1

DepthBound ==
    /\ OpenCalls <= MAX_DECODE_NESTING_LEVELS
    /\ dec.levels + OpenCalls = MAX_DECODE_NESTING_LEVELS

\* how many steps the decoder m has before it at most: none at its end; with
\* p = NULL one for each open call, to return from it; else three for each
\* byte not read, and those of a failure
StepsLeft(m) ==
    CASE m.pc \in {"done", "abort", "idle"} -> 0
      [] m.p = NullPtr ->
             2 * Len(m.stack) + (IF m.pc = "decode" THEN 2 ELSE 1)
      [] OTHER ->
             2 * MAX_DECODE_NESTING_LEVELS + 3 + 3 * (m.end - m.p)
                 + (IF m.pc = "assert" THEN 2 ELSE 1)

\* the decoder can take a step until it has come to its end, and each step
\* leaves it fewer steps
DecoderVariant ==
    Decoding =>
        /\ StepsLeft(dec) > 0
        /\ StepsLeft(decode_step(dec)) < StepsLeft(dec)
        /\ dec.pc = "assert" => StepsLeft(assert_skipped(dec)) < StepsLeft(dec)

SliceOnly(m) == [m EXCEPT !.text = SubSeq(@, 1, m.end)]

\* C28: json_utf8_decode(buffer, size) reads no byte at an offset of size
\* or more: each step of it is the step it takes when the buffer ends at
\* size, where no such byte is, and p stays within the size; a byte 0 does
\* not end the input: a value is returned only when all size bytes are read
DecoderInsideSlice ==
    /\ Decoding =>
           decode_step(SliceOnly(dec)) = SliceOnly(decode_step(dec))
    /\ dec.p # NullPtr => dec.p <= dec.end
    /\ dec.pc = "done" /\ dec.thing # NULL => dec.p = dec.end
    /\ dec.pc = "done" /\ dec.end > 0 /\ dec.text[dec.end] = 0 => dec.thing = NULL

\* C28 witness: "a", the byte 0 and b", decoded from the first five bytes of
\* a buffer in which a byte 0 and a quote follow, is the String of the three
\* bytes
StringWithNulDecoded ==
    /\ job.kind = "slice"
    /\ dec.pc = "done"
    /\ dec.end = 5
    /\ Len(dec.text) > dec.end
    /\ dec.thing = [type |-> "JSON_STRING", utf8 |-> <<97, 0, 98>>, len |-> 3]

(***************************************************************************)
(* Properties of the decoder: what the nesting limit lets through.         *)
(***************************************************************************)
\* every container of text is closed, text being without strings
Closed(text) == Depth(text, Len(text) + 1) = 0

\* C29: json_utf8_decode returns a value for a well-formed text in which no
\* container opens inside MAX_DECODE_NESTING_LEVELS containers, whatever the
\* innermost container holds
NestingByDepthOnly ==
    (/\ job.kind = "text"
     /\ job.text \in NestedTexts
     /\ Closed(job.text)
     /\ ~OpensTooDeep(job.text)
     /\ dec.pc = "done") =>
        dec.thing # NULL

(***************************************************************************)
(* Properties of json_thing_equal as an observer.                          *)
(***************************************************************************)
EqualityStep ==
    op'.name = "json_thing_equal" =>
        /\ the_array'.elements = the_array.elements
        /\ the_object'.fields = the_object.fields
        /\ \A key \in ObjectKeys :
              json_object_get(the_object', key).ret
                  = json_object_get(the_object, key).ret

\* C30 as stated: a call of json_thing_equal leaves the elements of its
\* array and the fields of its object as they were, and json_object_get
\* returns for each key what it would have returned before the call
EqualityObserves == [][EqualityStep]_vars

EqualityStepByKeys ==
    op'.name = "json_thing_equal" =>
        /\ the_array'.elements = the_array.elements
        /\ the_object'.fields = the_object.fields
        /\ \A key \in ObjectKeys :
              \E named \in {Named(the_object, key)} :
              \E after \in {json_object_get(the_object', key).ret} :
                 IF Cardinality(named) <= 1
                 THEN after = json_object_get(the_object, key).ret
                 ELSE \E i \in named :
                         /\ after = the_object.fields[i].value
                         /\ \A j \in named : i >= j

\* C30: a call of json_thing_equal leaves the elements of its array and the
\* fields of its object as they were; json_object_get returns, for a key
\* that one field has or none, what it would have returned before the call,
\* and for a key that two or more fields have the value of the last of them,
\* the call having built the hash table of the object
EqualityObservesByKeys == [][EqualityStepByKeys]_vars

\* C30 witness: json_thing_equal has found an object of fewer than
\* JIT_SIZE_LIMIT fields equal to its copy and has left it its hash table
TableBuiltByEquality ==
    /\ op.name = "json_thing_equal"
    /\ ret = [type |-> "bool", truth |-> TRUE]
    /\ which.part = "object"
    /\ list_size(the_object.fields) >= 2
    /\ list_size(the_object.fields) < JIT_SIZE_LIMIT
    /\ the_object.lookup_table # <<>>

====
